---------------------------- MODULE Spec2Model ----------------------------
(***************************************************************************)
(* Model of the wasm-compute kernels of phage_explorer                     *)
(* (packages/wasm-compute/src/lib.rs): the alignment engine (Myers diff,   *)
(* equal-length diff) and the encoding engine (SequenceHandle, dense k-mer *)
(* counting, GC skew, MinHash signatures, dot plot).                       *)
(*                                                                         *)
(* Bytes are their ASCII codes (65 = 'A', 67 = 'C', 71 = 'G', 84 = 'T',    *)
(* 85 = 'U', 78 = 'N', 88 = 'X', lower case = upper case + 32).  Rust      *)
(* slices are 0-indexed, TLA+ sequences 1-indexed: s[i] in the source is   *)
(* s[i + 1] here.                                                          *)
(*                                                                         *)
(* A usize that was produced by casting a negative isize is kept as that   *)
(* negative integer (its two's-complement reading); ULt compares two such  *)
(* values in unsigned order.  This is exact for every word width as long   *)
(* as the magnitudes stay far below 2^31, which the bounds guarantee.      *)
(***************************************************************************)
EXTENDS Integers, Sequences, FiniteSets

VARIABLES
    pc,           \* "ready", then the name of the last operation called
    seq_a,        \* the caller's first input array: a byte sequence (sequence
                  \* A of a diff), a signature for a signature comparison
    seq_b,        \* the second input array (sequence B of a diff)
    max_d,        \* the edit-distance budget of a diff
    handle,       \* the caller's SequenceHandle, NoHandle before `new`
    kmer_k,       \* the k of the last k-mer count
    window_size,  \* the window of the last GC skew
    step_size,    \* the step of the last GC skew
    num_hashes,   \* the signature length asked of the last MinHash
    bins,         \* the bins asked of the last dot plot
    result        \* what the last operation returned

vars == <<pc, seq_a, seq_b, max_d, handle, kmer_k, window_size, step_size,
          num_hashes, bins, result>>

---------------------------------------------------------------------------
(* Bounds of the model.                                                    *)

\* Longest sequence over all of DiffBytes given to the diff operations;
\* sequences over LongBytes are two bytes longer.
MaxLen == 3

\* Largest small edit-distance budget tried (besides the default budget).
MaxBudget == 2

\* Largest k of a k-mer count (a table of 4^k counters).
MaxK == 2

\* Largest signature length (number of hash seeds) asked of a MinHash.
MaxHashes == 2

\* Largest number of bins asked of a dot plot.
MaxBins == 3

---------------------------------------------------------------------------
(* Program constants.                                                      *)

DIFF_OP_MATCH == 0
DIFF_OP_MISMATCH == 1
DIFF_OP_INSERT == 2
DIFF_OP_DELETE == 3

DIFF_MAX_LEN == 500000
DIFF_MAX_EDIT_DISTANCE == 10000

---------------------------------------------------------------------------
(* Helpers.                                                                *)

SeqsUpTo(S, n) == UNION {[1..i -> S] : i \in 0..n}

Repeat(x, n) == [i \in 1..n |-> x]

Min(x, y) == IF x < y THEN x ELSE y

\* Unsigned "<" on usize values (negative = wrapped by an `as usize` cast).
ULt(x, y) == IF (x < 0) = (y < 0) THEN x < y ELSE y < 0

\* Option<String>: None, or Some(message with its formatted arguments).
None == [some |-> FALSE, msg |-> "", args |-> <<>>]

Some(m, a) == [some |-> TRUE, msg |-> m, args |-> a]

---------------------------------------------------------------------------
(* Base equality of the alignment engine.                                  *)

to_ascii_uppercase(b) == IF b >= 97 /\ b <= 122 THEN b - 32 ELSE b

\* normalize_base returning every other byte as it is (no upper-casing).
NormalizeBaseKeepCase(b) ==
    CASE b = 65 \/ b = 97 -> 65
      [] b = 67 \/ b = 99 -> 67
      [] b = 71 \/ b = 103 -> 71
      [] b = 84 \/ b = 116 \/ b = 85 \/ b = 117 -> 84
      [] OTHER -> b

\* normalize_base that leaves U and u out of the T arm.
NormalizeBaseWithoutU(b) ==
    CASE b = 65 \/ b = 97 -> 65
      [] b = 67 \/ b = 99 -> 67
      [] b = 71 \/ b = 103 -> 71
      [] b = 84 \/ b = 116 -> 84
      [] OTHER -> to_ascii_uppercase(b)

normalize_base(b) ==
    CASE b = 65 \/ b = 97 -> 65
      [] b = 67 \/ b = 99 -> 67
      [] b = 71 \/ b = 103 -> 71
      [] b = 84 \/ b = 116 \/ b = 85 \/ b = 117 -> 84
      [] OTHER -> to_ascii_uppercase(b)

\* bases_equal in which only A, C, G and T can match.
BasesEqualStrict(a, b) ==
    LET na == normalize_base(a)
        nb == normalize_base(b)
    IN  IF na \notin {65, 67, 71, 84} \/ nb \notin {65, 67, 71, 84} THEN FALSE ELSE na = nb

bases_equal(a, b) ==
    LET na == normalize_base(a)
        nb == normalize_base(b)
    IN  IF na = 78 \/ nb = 78 THEN FALSE ELSE na = nb

---------------------------------------------------------------------------
(* MyersDiffResult.  `edits` (the forward-order edit script of the         *)
(* traceback) and `panicked` (an out-of-bounds index aborted the call) are *)
(* not fields of the struct: they record what the call did internally.     *)

DiffResult(ma, mb, ed, mt, mm, ins, del, tr, err, script) ==
    [mask_a |-> ma, mask_b |-> mb, edit_distance |-> ed, matches |-> mt,
     mismatches |-> mm, insertions |-> ins, deletions |-> del,
     truncated |-> tr, error |-> err, edits |-> script, core |-> FALSE,
     panicked |-> FALSE]

Panicked ==
    [DiffResult(<<>>, <<>>, 0, 0, 0, 0, 0, FALSE, None, <<>>)
        EXCEPT !.panicked = TRUE, !.core = TRUE]

---------------------------------------------------------------------------
(* myers_diff_core: forward pass.                                          *)

\* The `while ... bases_equal(seq_a[x], seq_b[y])` extension along a diagonal;
\* returns the final x.
RECURSIVE Snake(_, _, _, _)
Snake(a, b, x, y) ==
    IF x >= 0 /\ y >= 0 /\ x < Len(a) /\ y < Len(b) /\ bases_equal(a[x + 1], b[y + 1])
    THEN Snake(a, b, x + 1, y + 1)
    ELSE x

\* v[i] with Rust's bounds check.
InBounds(v, i) == i >= 0 /\ i < Len(v)

\* StartX with the interior diagonals always entered by an insertion (the
\* comparison with the deletion path dropped).
StartXInsertionOnly(v, d, k, offset) ==
    IF d = 0 THEN 0
    ELSE IF k = -d THEN v[(k + 1 + offset) + 1]
    ELSE IF k = d THEN v[(k - 1 + offset) + 1] + 1
    ELSE v[(k + 1 + offset) + 1]

\* StartX with the step of the deletion forgotten on the top diagonal k = d.
StartXNoDeletionStep(v, d, k, offset) ==
    IF d = 0 THEN 0
    ELSE IF k = -d THEN v[(k + 1 + offset) + 1]
    ELSE IF k = d THEN v[(k - 1 + offset) + 1]
    ELSE LET from_above == v[(k - 1 + offset) + 1] + 1
             from_left == v[(k + 1 + offset) + 1]
         IN  IF from_above > from_left THEN from_above ELSE from_left

\* Starting x of diagonal k at depth d, from the neighbouring diagonals.
StartX(v, d, k, offset) ==
    IF d = 0 THEN 0
    ELSE IF k = -d THEN v[(k + 1 + offset) + 1]
    ELSE IF k = d THEN v[(k - 1 + offset) + 1] + 1
    ELSE LET from_above == v[(k - 1 + offset) + 1] + 1
             from_left == v[(k + 1 + offset) + 1]
         IN  IF from_above > from_left THEN from_above ELSE from_left

\* The indices StartX reads are inside v.
StartReadsOk(v, d, k, offset) ==
    IF d = 0 THEN TRUE
    ELSE IF k = -d THEN InBounds(v, k + 1 + offset)
    ELSE IF k = d THEN InBounds(v, k - 1 + offset)
    ELSE InBounds(v, k - 1 + offset) /\ InBounds(v, k + 1 + offset)

\* The 'outer loop from depth d, diagonal k on: [found, history, panicked].
\* found = -1 is None.  history gets v pushed when a depth starts (k = -d).
RECURSIVE Forward(_, _, _, _, _, _, _)
Forward(a, b, maxd, d, k, v, history) ==
    IF d > maxd THEN [found |-> -1, history |-> history, panicked |-> FALSE]
    ELSE IF k > d THEN Forward(a, b, maxd, d + 1, -(d + 1), v, history)
    ELSE
      LET offset == maxd
          hist == IF k = -d THEN Append(history, v) ELSE history
          idx == k + offset
      IN  IF ~(StartReadsOk(v, d, k, offset) /\ InBounds(v, idx))
          THEN [found |-> -1, history |-> hist, panicked |-> TRUE]
          ELSE
            LET x == Snake(a, b, StartX(v, d, k, offset), StartX(v, d, k, offset) - k)
                y == x - k
                v1 == [v EXCEPT ![idx + 1] = x]
            IN  IF x >= Len(a) /\ y >= Len(b)
                THEN [found |-> d, history |-> Append(hist, v1), panicked |-> FALSE]
                ELSE Forward(a, b, maxd, d, k + 2, v1, hist)

---------------------------------------------------------------------------
(* myers_diff_core: traceback.  Edits are <<op, pos_a, pos_b>>, pushed in  *)
(* reverse order.                                                          *)

\* `while x > sx && y > sy { x -= 1; y -= 1; edits.push((MATCH, x, y)) }`
RECURSIVE MatchRun(_, _, _, _, _)
MatchRun(x, y, sx, sy, edits) ==
    IF ULt(sx, x) /\ ULt(sy, y)
    THEN MatchRun(x - 1, y - 1, sx, sy, Append(edits, <<DIFF_OP_MATCH, x - 1, y - 1>>))
    ELSE [x |-> x, y |-> y, edits |-> edits]

\* IsDeletion with the comparison of the two predecessors inverted.
IsDeletionInverted(k, d, from_del, from_ins) ==
    IF k = -d THEN FALSE
    ELSE IF k = d THEN TRUE
    ELSE from_del + 1 < from_ins

\* Whether the step into diagonal k at depth d was a deletion (from k - 1) or
\* an insertion (from k + 1).
IsDeletion(k, d, from_del, from_ins) ==
    IF k = -d THEN FALSE
    ELSE IF k = d THEN TRUE
    ELSE from_del + 1 > from_ins

RECURSIVE Traceback(_, _, _, _, _, _)
Traceback(x, y, d, edits, history, offset) ==
    IF ~(x > 0 \/ y > 0) THEN [edits |-> edits, panicked |-> FALSE]
    ELSE IF d = 0
    THEN [edits |-> MatchRun(x, y, 0, 0, edits).edits, panicked |-> FALSE]
    ELSE IF ~InBounds(history, d) THEN [edits |-> edits, panicked |-> TRUE]
    ELSE
      LET k == x - y
          v_prev == history[d + 1]
          k_prev_del == k - 1
          k_prev_ins == k + 1
          from_del == IF ULt(k_prev_del + offset, Len(v_prev))
                      THEN v_prev[(k_prev_del + offset) + 1] ELSE -2
          from_ins == IF ULt(k_prev_ins + offset, Len(v_prev))
                      THEN v_prev[(k_prev_ins + offset) + 1] ELSE -2
          is_deletion == IsDeletion(k, d, from_del, from_ins)
          snake_start_x == IF is_deletion THEN from_del + 1 ELSE from_ins
          snake_start_y == snake_start_x - k
          run == MatchRun(x, y, snake_start_x, snake_start_y, edits)
      IN  IF is_deletion
          THEN IF run.x > 0
               THEN Traceback(run.x - 1, run.y, d - 1,
                              Append(run.edits, <<DIFF_OP_DELETE, run.x - 1, run.y>>),
                              history, offset)
               ELSE Traceback(run.x, run.y, d - 1, run.edits, history, offset)
          ELSE IF run.y > 0
               THEN Traceback(run.x, run.y - 1, d - 1,
                              Append(run.edits, <<DIFF_OP_INSERT, run.x, run.y - 1>>),
                              history, offset)
               ELSE Traceback(run.x, run.y, d - 1, run.edits, history, offset)

Reverse(s) == [i \in 1..Len(s) |-> s[Len(s) + 1 - i]]

---------------------------------------------------------------------------
(* myers_diff_core: masks and counts from the forward-order edits.         *)

\* ApplyEdits that counts a deletion without writing its tag into mask_a.
RECURSIVE ApplyEditsLeavesDeleteUntagged(_, _, _)
ApplyEditsLeavesDeleteUntagged(edits, i, acc) ==
    IF i > Len(edits) THEN acc
    ELSE
      LET op == edits[i][1]
          pos_a == edits[i][2]
          pos_b == edits[i][3]
          setA(v) == IF pos_a < Len(acc.mask_a)
                     THEN [acc.mask_a EXCEPT ![pos_a + 1] = v] ELSE acc.mask_a
          setB(v) == IF pos_b < Len(acc.mask_b)
                     THEN [acc.mask_b EXCEPT ![pos_b + 1] = v] ELSE acc.mask_b
      IN  ApplyEditsLeavesDeleteUntagged(edits, i + 1,
            CASE op = DIFF_OP_MATCH ->
                   [acc EXCEPT !.mask_a = setA(DIFF_OP_MATCH),
                               !.mask_b = setB(DIFF_OP_MATCH),
                               !.matches = @ + 1]
              [] op = DIFF_OP_DELETE ->
                   [acc EXCEPT !.deletions = @ + 1]
              [] op = DIFF_OP_INSERT ->
                   [acc EXCEPT !.mask_b = setB(DIFF_OP_INSERT), !.insertions = @ + 1]
              [] OTHER -> acc)

RECURSIVE ApplyEdits(_, _, _)
ApplyEdits(edits, i, acc) ==
    IF i > Len(edits) THEN acc
    ELSE
      LET op == edits[i][1]
          pos_a == edits[i][2]
          pos_b == edits[i][3]
          setA(v) == IF pos_a < Len(acc.mask_a)
                     THEN [acc.mask_a EXCEPT ![pos_a + 1] = v] ELSE acc.mask_a
          setB(v) == IF pos_b < Len(acc.mask_b)
                     THEN [acc.mask_b EXCEPT ![pos_b + 1] = v] ELSE acc.mask_b
      IN  ApplyEdits(edits, i + 1,
            CASE op = DIFF_OP_MATCH ->
                   [acc EXCEPT !.mask_a = setA(DIFF_OP_MATCH),
                               !.mask_b = setB(DIFF_OP_MATCH),
                               !.matches = @ + 1]
              [] op = DIFF_OP_DELETE ->
                   [acc EXCEPT !.mask_a = setA(DIFF_OP_DELETE), !.deletions = @ + 1]
              [] op = DIFF_OP_INSERT ->
                   [acc EXCEPT !.mask_b = setB(DIFF_OP_INSERT), !.insertions = @ + 1]
              [] OTHER -> acc)

myers_diff_core(a, b, max_d_arg) ==
    LET n == Len(a)
        m == Len(b)
        max_steps == n + m
        maxd == Min(max_d_arg, max_steps)
        offset == maxd
        v_size == 2 * maxd + 1
        v0 == [i \in 1..v_size |-> IF i = offset + 1 THEN 0 ELSE -1]
        fwd == Forward(a, b, maxd, 0, 0, v0, <<>>)
    IN  IF fwd.panicked THEN Panicked
        ELSE IF fwd.found = -1
        THEN [DiffResult(<<>>, <<>>, 0, 0, 0, 0, 0, TRUE,
                         Some("Edit distance exceeds limit: max_d=", <<maxd>>), <<>>)
                EXCEPT !.core = TRUE]
        ELSE
          LET tb == Traceback(n, m, fwd.found, <<>>, fwd.history, offset)
              edits == Reverse(tb.edits)
              built == ApplyEdits(edits, 1,
                          [mask_a |-> Repeat(DIFF_OP_MATCH, n),
                           mask_b |-> Repeat(DIFF_OP_MATCH, m),
                           matches |-> 0, insertions |-> 0, deletions |-> 0])
          IN  IF tb.panicked THEN Panicked
              ELSE [DiffResult(built.mask_a, built.mask_b, fwd.found, built.matches, 0,
                               built.insertions, built.deletions, FALSE, None, edits)
                      EXCEPT !.core = TRUE]

---------------------------------------------------------------------------
(* myers_diff_with_limit, myers_diff, equal_len_diff.                      *)

\* The equal-length fast path's scan: all positions equal under bases_equal.
AllMatch(a, b) == \A i \in 1..Len(a) : bases_equal(a[i], b[i])

\* The results of the fast paths.
BothEmpty == DiffResult(<<>>, <<>>, 0, 0, 0, 0, 0, FALSE, None, <<>>)

\* AllInsertions with the tags and the count of the deletion path.
AllInsertionsAsDeletions(m) ==
    DiffResult(<<>>, Repeat(DIFF_OP_DELETE, m), m, 0, 0, 0, m, FALSE, None, <<>>)

AllInsertions(m) ==
    DiffResult(<<>>, Repeat(DIFF_OP_INSERT, m), m, 0, 0, m, 0, FALSE, None, <<>>)

\* AllDeletions that counts the deleted bases as mismatches.
AllDeletionsAsMismatches(n) ==
    DiffResult(Repeat(DIFF_OP_DELETE, n), <<>>, n, 0, n, 0, 0, FALSE, None, <<>>)

AllDeletions(n) ==
    DiffResult(Repeat(DIFF_OP_DELETE, n), <<>>, n, 0, 0, 0, n, FALSE, None, <<>>)

AllMatches(n, m) ==
    DiffResult(Repeat(DIFF_OP_MATCH, n), Repeat(DIFF_OP_MATCH, m), 0, n, 0, 0, 0,
               FALSE, None, <<>>)

\* myers_diff_with_limit that returns the empty result for an oversized input
\* without marking it truncated and without an error.
MyersDiffSilentCeiling(a, b, max_d_arg) ==
    LET n == Len(a)
        m == Len(b)
    IN  IF n > DIFF_MAX_LEN \/ m > DIFF_MAX_LEN
        THEN DiffResult(<<>>, <<>>, 0, 0, 0, 0, 0, FALSE, None, <<>>)
        ELSE IF n = 0 /\ m = 0
        THEN BothEmpty
        ELSE IF n = 0 THEN AllInsertions(m)
        ELSE IF m = 0 THEN AllDeletions(n)
        ELSE IF n = m /\ AllMatch(a, b) THEN AllMatches(n, m)
        ELSE myers_diff_core(a, b, max_d_arg)

myers_diff_with_limit(a, b, max_d_arg) ==
    LET n == Len(a)
        m == Len(b)
    IN  IF n > DIFF_MAX_LEN \/ m > DIFF_MAX_LEN
        THEN DiffResult(<<>>, <<>>, 0, 0, 0, 0, 0, TRUE,
                        Some("Sequence too long: len_a, len_b, max", <<n, m, DIFF_MAX_LEN>>),
                        <<>>)
        ELSE IF n = 0 /\ m = 0
        THEN BothEmpty
        ELSE IF n = 0 THEN AllInsertions(m)
        ELSE IF m = 0 THEN AllDeletions(n)
        ELSE IF n = m /\ AllMatch(a, b) THEN AllMatches(n, m)
        ELSE myers_diff_core(a, b, max_d_arg)

myers_diff(a, b) == myers_diff_with_limit(a, b, DIFF_MAX_EDIT_DISTANCE)

\* equal_len_diff that compares the common prefix of inputs of unequal length
\* and reports no error.
EqualLenDiffSilentPrefix(a, b) ==
    LET n == Min(Len(a), Len(b))
        mask == [i \in 1..n |-> IF bases_equal(a[i], b[i])
                                THEN DIFF_OP_MATCH ELSE DIFF_OP_MISMATCH]
        matches == Cardinality({i \in 1..n : bases_equal(a[i], b[i])})
    IN  DiffResult(mask, mask, n - matches, matches, n - matches, 0, 0, FALSE, None, <<>>)

equal_len_diff(a, b) ==
    LET n == Len(a)
        m == Len(b)
        mask == [i \in 1..n |-> IF bases_equal(a[i], b[i])
                                THEN DIFF_OP_MATCH ELSE DIFF_OP_MISMATCH]
        matches == Cardinality({i \in 1..n : bases_equal(a[i], b[i])})
        mismatches == n - matches
    IN  IF n # m
        THEN DiffResult(<<>>, <<>>, 0, 0, 0, 0, 0, TRUE,
                        Some("Sequences must have equal length for equal_len_diff", <<n, m>>),
                        <<>>)
        ELSE DiffResult(mask, mask, mismatches, matches, mismatches, 0, 0, FALSE, None, <<>>)

---------------------------------------------------------------------------
(* Specification of the alignment engine: a caller holds two byte          *)
(* sequences and a budget and calls one of the diff operations.            *)

\* Bytes given to the diff operations: A, C and N.
DiffBytes == {65, 67, 78}

\* The bytes of the longer inputs: A and C.
LongBytes == {65, 67}

\* The inputs of the diff operations.
DiffInputs == SeqsUpTo(DiffBytes, MaxLen) \cup SeqsUpTo(LongBytes, MaxLen + 2)

\* Budgets: the small ones and myers_diff's default.
Budgets == (0..MaxBudget) \cup {DIFF_MAX_EDIT_DISTANCE}

NoResult == [none |-> TRUE]

NoHandle == [none |-> TRUE]

Init ==
    /\ pc = "ready"
    /\ seq_a \in DiffInputs
    /\ seq_b \in DiffInputs
    /\ max_d \in Budgets
    /\ handle = NoHandle
    /\ kmer_k = 0
    /\ window_size = 0
    /\ step_size = 0
    /\ num_hashes = 0
    /\ bins = 0
    /\ result = NoResult

CallMyersDiffWithLimit ==
    /\ pc = "ready"
    /\ result' = myers_diff_with_limit(seq_a, seq_b, max_d)
    /\ pc' = "diff"
    /\ UNCHANGED <<seq_a, seq_b, max_d, handle, kmer_k, window_size, step_size,
                 num_hashes, bins>>

CallEqualLenDiff ==
    /\ pc = "ready"
    /\ result' = equal_len_diff(seq_a, seq_b)
    /\ pc' = "equal_len"
    /\ UNCHANGED <<seq_a, seq_b, max_d, handle, kmer_k, window_size, step_size,
                 num_hashes, bins>>

Next == CallMyersDiffWithLimit

Spec == Init /\ [][Next]_vars

---------------------------------------------------------------------------
(* Reference notions used by the properties.                               *)

Max(x, y) == IF x > y THEN x ELSE y

\* Length of a longest common subsequence of a and b under bases_equal, by
\* the textbook table: row i holds the LCS lengths of a[1..i] against every
\* prefix of b (entry j + 1 is for b[1..j]).
RECURSIVE LcsRow(_, _, _, _, _)
LcsRow(a, b, i, prev, cur) ==
    LET j == Len(cur)
    IN  IF j > Len(b) THEN cur
        ELSE LcsRow(a, b, i, prev,
               Append(cur,
                 IF j = 0 THEN 0
                 ELSE Max(Max(prev[j + 1], cur[j]),
                          IF bases_equal(a[i], b[j]) THEN prev[j] + 1 ELSE 0)))

RECURSIVE LcsRows(_, _, _, _)
LcsRows(a, b, i, prev) ==
    IF i > Len(a) THEN prev[Len(b) + 1]
    ELSE LcsRows(a, b, i + 1, LcsRow(a, b, i, prev, <<>>))

Lcs(a, b) == LcsRows(a, b, 1, Repeat(0, Len(b) + 1))

\* Minimum number of insert/delete operations turning a into b.
MinEditDistance(a, b) == Len(a) + Len(b) - 2 * Lcs(a, b)

\* The A positions of a script, in script order (Match/Delete), and the B
\* positions (Match/Insert).
PositionsA(edits) ==
    LET sel == SelectSeq(edits, LAMBDA e : e[1] \in {DIFF_OP_MATCH, DIFF_OP_DELETE})
    IN  [i \in 1..Len(sel) |-> sel[i][2]]

PositionsB(edits) ==
    LET sel == SelectSeq(edits, LAMBDA e : e[1] \in {DIFF_OP_MATCH, DIFF_OP_INSERT})
    IN  [i \in 1..Len(sel) |-> sel[i][3]]

\* <<0, 1, ..., n - 1>>
Iota(n) == [i \in 1..n |-> i - 1]

DiffDone == pc = "diff"

---------------------------------------------------------------------------
(* Properties of the alignment engine, checked under Spec.                 *)

\* C1: whenever max_distance >= D = len(A) + len(B) - 2 * LCS(A, B) (LCS under
\* base equality), myers_diff_with_limit returns truncated = false and
\* edit_distance = D.
C1_EditDistanceIsMinimal ==
    (DiffDone /\ max_d >= MinEditDistance(seq_a, seq_b))
        => (/\ ~result.panicked
            /\ ~result.truncated
            /\ result.edit_distance = MinEditDistance(seq_a, seq_b))

\* C1 witness: the search ran, with a budget exactly equal to the distance,
\* on a pair that needs a deletion, an insertion and a match.
C1_Witness ==
    /\ DiffDone
    /\ result.core
    /\ max_d = MinEditDistance(seq_a, seq_b)
    /\ result.edit_distance = MaxBudget
    /\ result.insertions > 0
    /\ result.deletions > 0
    /\ result.matches > 0

\* C2: in every non-truncated result of the search, the edit script covers
\* the positions of A exactly once, increasing, by Match/Delete, the positions
\* of B exactly once, increasing, by Match/Insert, and every Match pairs two
\* bases that are equal under base equality.
C2_ScriptCoversBothSequences ==
    (DiffDone /\ result.core /\ ~result.truncated)
        => (/\ ~result.panicked
            /\ PositionsA(result.edits) = Iota(Len(seq_a))
            /\ PositionsB(result.edits) = Iota(Len(seq_b))
            /\ \A i \in 1..Len(result.edits) :
                 LET e == result.edits[i]
                 IN  /\ e[1] \in {DIFF_OP_MATCH, DIFF_OP_DELETE, DIFF_OP_INSERT}
                     /\ e[1] = DIFF_OP_MATCH
                          => /\ e[2] < Len(seq_a)
                             /\ e[3] < Len(seq_b)
                             /\ bases_equal(seq_a[e[2] + 1], seq_b[e[3] + 1]))

\* C2 witness: a script with a Match, a Delete and an Insert in it.
C2_Witness ==
    /\ DiffDone
    /\ result.core
    /\ ~result.truncated
    /\ \E i, j, l \in 1..Len(result.edits) :
         /\ result.edits[i][1] = DIFF_OP_MATCH
         /\ result.edits[j][1] = DIFF_OP_DELETE
         /\ result.edits[l][1] = DIFF_OP_INSERT

\* C5: if the minimum edit distance exceeds max_distance the result is
\* truncated with a non-empty error; a non-truncated result never reports
\* edit_distance > max_distance.
C5_BudgetExceededTruncates ==
    DiffDone
        => /\ (MinEditDistance(seq_a, seq_b) > max_d
                 => result.truncated /\ result.error.some /\ result.error.msg # "")
           /\ (~result.truncated => result.edit_distance <= max_d)

\* C9: the empty-input fast paths: both empty gives distance 0, empty masks,
\* not truncated; A empty gives distance = insertions = len(B), mask_b all
\* Insert; B empty gives distance = deletions = len(A), mask_a all Delete.
C9_EmptyInputFastPaths ==
    DiffDone =>
        /\ (Len(seq_a) = 0 /\ Len(seq_b) = 0)
             => /\ result.edit_distance = 0
                /\ result.mask_a = <<>>
                /\ result.mask_b = <<>>
                /\ ~result.truncated
        /\ (Len(seq_a) = 0 /\ Len(seq_b) > 0)
             => /\ result.edit_distance = Len(seq_b)
                /\ result.insertions = Len(seq_b)
                /\ result.mask_a = <<>>
                /\ result.mask_b = Repeat(DIFF_OP_INSERT, Len(seq_b))
        /\ (Len(seq_b) = 0 /\ Len(seq_a) > 0)
             => /\ result.edit_distance = Len(seq_a)
                /\ result.deletions = Len(seq_a)
                /\ result.mask_b = <<>>
                /\ result.mask_a = Repeat(DIFF_OP_DELETE, Len(seq_a))

\* C9 witness: an empty A against a B of three bases.
C9_Witness ==
    /\ DiffDone
    /\ seq_a = <<>>
    /\ Len(seq_b) = 3
    /\ result.insertions = 3
    /\ result.mask_b = <<DIFF_OP_INSERT, DIFF_OP_INSERT, DIFF_OP_INSERT>>

---------------------------------------------------------------------------
(* A sequence compared with itself.                                        *)

\* Bytes of the self-comparison: A, c, U, N, n, X and '-'.
SelfBytes == {65, 99, 85, 78, 110, 88, 45}

InitSelf ==
    /\ pc = "ready"
    /\ seq_a \in SeqsUpTo(SelfBytes, MaxLen)
    /\ seq_b = seq_a
    /\ max_d \in Budgets
    /\ handle = NoHandle
    /\ kmer_k = 0
    /\ window_size = 0
    /\ step_size = 0
    /\ num_hashes = 0
    /\ bins = 0
    /\ result = NoResult

NextSelf == CallMyersDiffWithLimit

SpecSelf == InitSelf /\ [][NextSelf]_vars

\* diff(s, s) is distance 0, not truncated, all-Match masks of length len(s).
SelfDiffIsAllMatch ==
    /\ ~result.panicked
    /\ result.edit_distance = 0
    /\ ~result.truncated
    /\ result.mask_a = Repeat(DIFF_OP_MATCH, Len(seq_a))
    /\ result.mask_b = Repeat(DIFF_OP_MATCH, Len(seq_a))

HasN(s) == \E i \in 1..Len(s) : s[i] \in {78, 110}

\* C3 as stated: for every s (any bytes) and every max_distance, diff(s, s)
\* has distance 0, truncated = false and all-Match masks of length len(s).
C3_SelfDiffAnyBytes == (DiffDone /\ seq_b = seq_a) => SelfDiffIsAllMatch

\* C3 amended: the same for every s that holds no N and no n.
C3_SelfDiffWithoutN == (DiffDone /\ seq_b = seq_a /\ ~HasN(seq_a)) => SelfDiffIsAllMatch

\* C3 witness: a sequence with the ambiguous bytes X and '-' and a lower-case
\* base, compared with itself under budget 0.
C3_Witness ==
    /\ DiffDone
    /\ seq_b = seq_a
    /\ max_d = 0
    /\ {88, 45, 99} \subseteq {seq_a[i] : i \in 1..Len(seq_a)}
    /\ result.matches = Len(seq_a)

---------------------------------------------------------------------------
(* Base equality seen through the two operations, on every pair of bytes.  *)

AllBytes == 0..255

InitBases ==
    /\ pc = "ready"
    /\ \E x, y \in AllBytes : seq_a = <<x>> /\ seq_b = <<y>>
    /\ max_d = DIFF_MAX_EDIT_DISTANCE
    /\ handle = NoHandle
    /\ kmer_k = 0
    /\ window_size = 0
    /\ step_size = 0
    /\ num_hashes = 0
    /\ bins = 0
    /\ result = NoResult

NextBases == CallMyersDiffWithLimit \/ CallEqualLenDiff

SpecBases == InitBases /\ [][NextBases]_vars

\* The operation that ran treated the two single bytes as equal.
TreatedAsEqual ==
    IF pc = "equal_len"
    THEN result.mask_a = <<DIFF_OP_MATCH>> /\ result.mismatches = 0
    ELSE result.mask_a = <<DIFF_OP_MATCH>> /\ result.edit_distance = 0

UpperCase(b) == IF b \in 97..122 THEN b - 32 ELSE b

\* Case-insensitive, U as T.
Canonical(b) == IF UpperCase(b) = 85 THEN 84 ELSE UpperCase(b)

IsACGT(b) == Canonical(b) \in {65, 67, 71, 84}

\* C4 as stated: two bytes are equal exactly when both normalise to the same
\* one of A, C, G, T; every other byte is unequal to every byte, itself
\* included.
C4_OnlyACGTMatch ==
    (pc \in {"diff", "equal_len"} /\ Len(seq_a) = 1 /\ Len(seq_b) = 1)
        => (TreatedAsEqual
              <=> (IsACGT(seq_a[1]) /\ IsACGT(seq_b[1])
                     /\ Canonical(seq_a[1]) = Canonical(seq_b[1])))

\* C4 amended: two bytes are equal exactly when neither is N or n and they
\* are the same byte after upper-casing with U read as T; so only N/n is
\* unequal to every byte, itself included, and every other byte outside
\* A/C/G/T/U equals itself and its other letter case.
C4_OnlyNNeverMatches ==
    (pc \in {"diff", "equal_len"} /\ Len(seq_a) = 1 /\ Len(seq_b) = 1)
        => (TreatedAsEqual
              <=> (UpperCase(seq_a[1]) # 78 /\ UpperCase(seq_b[1]) # 78
                     /\ Canonical(seq_a[1]) = Canonical(seq_b[1])))

\* C4 witness: equal_len_diff matched x against X.
C4_Witness ==
    /\ pc = "equal_len"
    /\ seq_a = <<120>>
    /\ seq_b = <<88>>
    /\ result.mask_a = <<DIFF_OP_MATCH>>

---------------------------------------------------------------------------
(* One base inserted.                                                      *)

\* Bases of the single-insertion inputs: A, C, G, T and U.
IndelBytes == {65, 67, 71, 84, 85}

\* s with byte c inserted before 0-based position p.
InsertAt(s, p, c) ==
    [i \in 1..(Len(s) + 1) |-> IF i <= p THEN s[i] ELSE IF i = p + 1 THEN c ELSE s[i - 1]]

InitIndel ==
    /\ pc = "ready"
    /\ \E s \in SeqsUpTo(IndelBytes, MaxLen), c \in IndelBytes, longer_is_b \in BOOLEAN :
         \E p \in 0..Len(s) :
            /\ seq_a = IF longer_is_b THEN s ELSE InsertAt(s, p, c)
            /\ seq_b = IF longer_is_b THEN InsertAt(s, p, c) ELSE s
    /\ max_d \in Budgets \ {0}
    /\ handle = NoHandle
    /\ kmer_k = 0
    /\ window_size = 0
    /\ step_size = 0
    /\ num_hashes = 0
    /\ bins = 0
    /\ result = NoResult

NextIndel == CallMyersDiffWithLimit

SpecIndel == InitIndel /\ [][NextIndel]_vars

\* Length of the longest common prefix of a and b, from index i on: with
\* bytes compared as bytes, and with bytes compared by base equality.
RECURSIVE BytePrefix(_, _, _)
BytePrefix(a, b, i) ==
    IF i < Len(a) /\ i < Len(b) /\ a[i + 1] = b[i + 1]
    THEN BytePrefix(a, b, i + 1)
    ELSE i

RECURSIVE BasePrefix(_, _, _)
BasePrefix(a, b, i) ==
    IF i < Len(a) /\ i < Len(b) /\ bases_equal(a[i + 1], b[i + 1])
    THEN BasePrefix(a, b, i + 1)
    ELSE i

\* Every tag is Match except the one at 0-based index l, which is tag.
OneTagAt(mask, l, tag) ==
    \A i \in 1..Len(mask) : mask[i] = IF i = l + 1 THEN tag ELSE DIFF_OP_MATCH

\* The result of diff(A, B) for B = A plus one base, and of diff(B, A), with
\* the single Insert (Delete) at index l.
SingleIndelAt(l) ==
    /\ ~result.panicked
    /\ ~result.truncated
    /\ result.edit_distance = 1
    /\ result.mismatches = 0
    /\ IF Len(seq_b) > Len(seq_a)
       THEN /\ result.insertions = 1
            /\ result.deletions = 0
            /\ result.matches = Len(seq_a)
            /\ result.mask_a = Repeat(DIFF_OP_MATCH, Len(seq_a))
            /\ Len(result.mask_b) = Len(seq_b)
            /\ OneTagAt(result.mask_b, l, DIFF_OP_INSERT)
       ELSE /\ result.deletions = 1
            /\ result.insertions = 0
            /\ result.matches = Len(seq_b)
            /\ result.mask_b = Repeat(DIFF_OP_MATCH, Len(seq_b))
            /\ Len(result.mask_a) = Len(seq_a)
            /\ OneTagAt(result.mask_a, l, DIFF_OP_DELETE)

\* C10 as stated: the single Insert (Delete) sits at index L, the length of
\* the longest common prefix of A and B.
C10_IndelAtBytePrefix ==
    DiffDone => SingleIndelAt(BytePrefix(seq_a, seq_b, 0))

\* C10 amended: the same with L the length of the longest common prefix of A
\* and B under base equality (letter case ignored, U equal to T).
C10_IndelAtBasePrefix ==
    DiffDone => SingleIndelAt(BasePrefix(seq_a, seq_b, 0))

\* C10 witness: an insertion in the middle of a sequence of three bases,
\* where the inserted base repeats the base before it.
C10_Witness ==
    /\ DiffDone
    /\ Len(seq_a) = 3
    /\ Len(seq_b) = 4
    /\ result.insertions = 1
    /\ result.mask_b = <<DIFF_OP_MATCH, DIFF_OP_MATCH, DIFF_OP_INSERT, DIFF_OP_MATCH>>
    /\ bases_equal(seq_b[2], seq_b[3])

---------------------------------------------------------------------------
(* Encoding engine: SequenceHandle.                                        *)

DENSE_KMER_MAX_K == 10

SEQ_BASE_A == 0
SEQ_BASE_C == 1
SEQ_BASE_G == 2
SEQ_BASE_T == 3
SEQ_BASE_N == 4

\* encode_base that knows the upper-case letters only.
EncodeBaseUpperOnly(byte) ==
    CASE byte = 65 -> SEQ_BASE_A
      [] byte = 67 -> SEQ_BASE_C
      [] byte = 71 -> SEQ_BASE_G
      [] byte = 84 \/ byte = 85 -> SEQ_BASE_T
      [] OTHER -> SEQ_BASE_N

encode_base(byte) ==
    CASE byte = 65 \/ byte = 97 -> SEQ_BASE_A
      [] byte = 67 \/ byte = 99 -> SEQ_BASE_C
      [] byte = 71 \/ byte = 103 -> SEQ_BASE_G
      [] byte = 84 \/ byte = 116 \/ byte = 85 \/ byte = 117 -> SEQ_BASE_T
      [] OTHER -> SEQ_BASE_N

\* SequenceHandle::new
SequenceHandleNew(seq_bytes) ==
    [encoded |-> [i \in 1..Len(seq_bytes) |-> encode_base(seq_bytes[i])],
     length |-> Len(seq_bytes),
     valid_count |-> Cardinality({i \in 1..Len(seq_bytes) :
                                    encode_base(seq_bytes[i]) # SEQ_BASE_N})]

---------------------------------------------------------------------------
(* Dense k-mer counting.  The rolling indices stay below 4^k <= 2^20, so   *)
(* `(i << 2) | c` is i * 4 + c, `& mask` is % 4^k, `i >> 2` is i \div 4    *)
(* and `(i >> 2) | (c << rc_shift)` is their sum.  A counter is a u32 and  *)
(* saturates at u32::MAX.                                                  *)

RECURSIVE Pow4(_)
Pow4(k) == IF k = 0 THEN 1 ELSE 4 * Pow4(k - 1)

DenseKmerResult(counts, total_valid, k) ==
    [counts |-> counts, total_valid |-> total_valid, k |-> k]

\* x.saturating_add(1) on a u32: x stays at u32::MAX = 65535 * 65536 + 65535,
\* recognised by its two 16-bit halves.
saturating_add1(x) ==
    IF x \div 65536 = 65535 /\ x % 65536 = 65535 THEN x ELSE x + 1

\* counts[idx] = counts[idx].saturating_add(1), on a 0-indexed table.
Bump(counts, idx) == [counts EXCEPT ![idx + 1] = saturating_add1(@)]

\* KmerStep that clears the rolling index on an ambiguous code and keeps the
\* run length.
KmerStepKeepsRun(st, code, k) ==
    IF code = SEQ_BASE_N
    THEN [st EXCEPT !.rolling_index = 0]
    ELSE LET ri == (st.rolling_index * 4 + code) % Pow4(k)
             vb == st.valid_bases + 1
         IN  IF vb >= k
             THEN [rolling_index |-> ri, valid_bases |-> vb,
                   counts |-> Bump(st.counts, ri), total_valid |-> st.total_valid + 1]
             ELSE [st EXCEPT !.rolling_index = ri, !.valid_bases = vb]

\* One iteration of the counting loop on one code (SEQ_BASE_N: ambiguous).
KmerStep(st, code, k) ==
    IF code = SEQ_BASE_N
    THEN [st EXCEPT !.rolling_index = 0, !.valid_bases = 0]
    ELSE LET ri == (st.rolling_index * 4 + code) % Pow4(k)
             vb == st.valid_bases + 1
         IN  IF vb >= k
             THEN [rolling_index |-> ri, valid_bases |-> vb,
                   counts |-> Bump(st.counts, ri), total_valid |-> st.total_valid + 1]
             ELSE [st EXCEPT !.rolling_index = ri, !.valid_bases = vb]

RECURSIVE KmerLoop(_, _, _, _)
KmerLoop(codes, i, k, st) ==
    IF i > Len(codes) THEN st
    ELSE KmerLoop(codes, i + 1, k, KmerStep(st, codes[i], k))

KmerStart(k) ==
    [rolling_index |-> 0, valid_bases |-> 0, counts |-> Repeat(0, Pow4(k)),
     total_valid |-> 0]

\* SequenceHandle::count_kmers
count_kmers(h, k) ==
    IF k < 1 \/ k > DENSE_KMER_MAX_K \/ h.length < k
    THEN DenseKmerResult(<<>>, 0, k)
    ELSE LET st == KmerLoop(h.encoded, 1, k, KmerStart(k))
         IN  DenseKmerResult(st.counts, st.total_valid, k)

\* The `match byte` of count_kmers_dense and count_kmers_dense_canonical:
\* 0..3, or 4 for the arm that resets the rolling state.
base_code(byte) ==
    CASE byte = 65 \/ byte = 97 -> 0
      [] byte = 67 \/ byte = 99 -> 1
      [] byte = 71 \/ byte = 103 -> 2
      [] byte = 84 \/ byte = 116 \/ byte = 85 \/ byte = 117 -> 3
      [] OTHER -> 4

BaseCodes(seq) == [i \in 1..Len(seq) |-> base_code(seq[i])]

count_kmers_dense(seq, k) ==
    IF k = 0 \/ k > DENSE_KMER_MAX_K
    THEN DenseKmerResult(<<>>, 0, k)
    ELSE LET st == KmerLoop(BaseCodes(seq), 1, k, KmerStart(k))
         IN  DenseKmerResult(st.counts, st.total_valid, k)

\* The reverse-complement register without the complement: the code itself
\* is put at the top.
RcUpdateNoComplement(rc_index, code, k) == (rc_index \div 4) + code * Pow4(k - 1)

\* rc_index = (rc_index >> 2) | (comp_code << rc_shift), comp_code = 3 - code,
\* rc_shift = 2 * (k - 1).
RcUpdate(rc_index, code, k) == (rc_index \div 4) + (3 - code) * Pow4(k - 1)

CanonicalStep(st, code, k) ==
    IF code = 4
    THEN [st EXCEPT !.fwd_index = 0, !.rc_index = 0, !.valid_bases = 0]
    ELSE LET fwd == (st.fwd_index * 4 + code) % Pow4(k)
             rc == RcUpdate(st.rc_index, code, k)
             vb == st.valid_bases + 1
             canonical == Min(fwd, rc)
         IN  IF vb >= k
             THEN [fwd_index |-> fwd, rc_index |-> rc, valid_bases |-> vb,
                   counts |-> Bump(st.counts, canonical),
                   total_valid |-> st.total_valid + 1]
             ELSE [st EXCEPT !.fwd_index = fwd, !.rc_index = rc, !.valid_bases = vb]

RECURSIVE CanonicalLoop(_, _, _, _)
CanonicalLoop(codes, i, k, st) ==
    IF i > Len(codes) THEN st
    ELSE CanonicalLoop(codes, i + 1, k, CanonicalStep(st, codes[i], k))

count_kmers_dense_canonical(seq, k) ==
    IF k = 0 \/ k > DENSE_KMER_MAX_K
    THEN DenseKmerResult(<<>>, 0, k)
    ELSE LET st == CanonicalLoop(BaseCodes(seq), 1, k,
                     [fwd_index |-> 0, rc_index |-> 0, valid_bases |-> 0,
                      counts |-> Repeat(0, Pow4(k)), total_valid |-> 0])
         IN  DenseKmerResult(st.counts, st.total_valid, k)

\* The complement table of reverse_complement.
complement(b) ==
    CASE b = 65 -> 84 [] b = 84 -> 65 [] b = 71 -> 67 [] b = 67 -> 71
      [] b = 97 -> 116 [] b = 116 -> 97 [] b = 103 -> 99 [] b = 99 -> 103
      [] b = 78 -> 78 [] b = 110 -> 110
      [] b = 82 -> 89 [] b = 114 -> 121
      [] b = 89 -> 82 [] b = 121 -> 114
      [] b = 83 -> 83 [] b = 115 -> 115
      [] b = 87 -> 87 [] b = 119 -> 119
      [] b = 75 -> 77 [] b = 107 -> 109
      [] b = 77 -> 75 [] b = 109 -> 107
      [] b = 66 -> 86 [] b = 98 -> 118
      [] b = 86 -> 66 [] b = 118 -> 98
      [] b = 68 -> 72 [] b = 100 -> 104
      [] b = 72 -> 68 [] b = 104 -> 100
      [] b = 85 -> 65 [] b = 117 -> 97
      [] OTHER -> b

reverse_complement(seq) == [i \in 1..Len(seq) |-> complement(seq[Len(seq) + 1 - i])]

---------------------------------------------------------------------------
(* Specification of k-mer counting: a caller holds a byte sequence, may    *)
(* encode it into a handle, and counts k-mers on the handle or the bytes.  *)

\* Bytes given to the k-mer counts: A, C, g, U, N and R.
KmerBytes == {65, 67, 103, 85, 78, 82}

\* The k's tried: 0, the small valid ones, and the first one above the maximum.
KmerKs == (0..MaxK) \cup {DENSE_KMER_MAX_K + 1}

InitKmers ==
    /\ pc = "ready"
    /\ seq_a \in SeqsUpTo(KmerBytes, MaxLen + 1)
    /\ seq_b = <<>>
    /\ max_d = 0
    /\ handle = NoHandle
    /\ kmer_k = 0
    /\ window_size = 0
    /\ step_size = 0
    /\ num_hashes = 0
    /\ bins = 0
    /\ result = NoResult

New ==
    /\ handle = NoHandle
    /\ handle' = SequenceHandleNew(seq_a)
    /\ pc' = "new"
    /\ UNCHANGED <<seq_a, seq_b, max_d, kmer_k, window_size, step_size, result,
                 num_hashes, bins>>

HandleCountKmers ==
    /\ handle # NoHandle
    /\ \E k \in KmerKs :
         /\ kmer_k' = k
         /\ result' = count_kmers(handle, k)
    /\ pc' = "count_kmers"
    /\ UNCHANGED <<seq_a, seq_b, max_d, handle, window_size, step_size,
                 num_hashes, bins>>

CountKmersDense ==
    /\ \E k \in KmerKs :
         /\ kmer_k' = k
         /\ result' = count_kmers_dense(seq_a, k)
    /\ pc' = "count_kmers_dense"
    /\ UNCHANGED <<seq_a, seq_b, max_d, handle, window_size, step_size,
                 num_hashes, bins>>

CountKmersDenseCanonical ==
    /\ \E k \in KmerKs :
         /\ kmer_k' = k
         /\ result' = count_kmers_dense_canonical(seq_a, k)
    /\ pc' = "count_kmers_dense_canonical"
    /\ UNCHANGED <<seq_a, seq_b, max_d, handle, window_size, step_size,
                 num_hashes, bins>>

NextKmers == New \/ HandleCountKmers \/ CountKmersDense \/ CountKmersDenseCanonical

SpecKmers == InitKmers /\ [][NextKmers]_vars

---------------------------------------------------------------------------
(* Properties of k-mer counting, checked under SpecKmers.                  *)

\* The 2-bit code of a base: A = 0, C = 1, G = 2, T/U = 3, either case; 4 for
\* an ambiguous byte.
RefCode(b) ==
    IF b \in {65, 97} THEN 0
    ELSE IF b \in {67, 99} THEN 1
    ELSE IF b \in {71, 103} THEN 2
    ELSE IF b \in {84, 116, 85, 117} THEN 3
    ELSE 4

\* The window of length k at 0-based start p holds no ambiguous base.
CleanWindow(s, p, k) == \A t \in 1..k : RefCode(s[p + t]) # 4

\* The window packed with its first base most significant.
RECURSIVE PackWindow(_, _, _)
PackWindow(s, p, k) ==
    IF k = 0 THEN 0 ELSE 4 * PackWindow(s, p, k - 1) + RefCode(s[p + k])

CleanStarts(s, k) == {p \in 0..(Len(s) - k) : CleanWindow(s, p, k)}

RECURSIVE SumSeq(_, _)
SumSeq(s, i) == IF i > Len(s) THEN 0 ELSE s[i] + SumSeq(s, i + 1)

\* C6: for k in 1..10 and len(s) >= k, SequenceHandle::count_kmers and
\* count_kmers_dense return 4^k counters, counts[idx] being the number of
\* ambiguity-free windows that pack to idx, and total_valid = sum(counts) =
\* the number of ambiguity-free windows.
C6_CountsAreCleanWindows ==
    (pc \in {"count_kmers", "count_kmers_dense"}
       /\ kmer_k >= 1 /\ kmer_k <= DENSE_KMER_MAX_K /\ Len(seq_a) >= kmer_k)
        => /\ Len(result.counts) = Pow4(kmer_k)
           /\ \A idx \in 0..(Pow4(kmer_k) - 1) :
                result.counts[idx + 1] =
                  Cardinality({p \in CleanStarts(seq_a, kmer_k) :
                                 PackWindow(seq_a, p, kmer_k) = idx})
           /\ result.total_valid = SumSeq(result.counts, 1)
           /\ result.total_valid = Cardinality(CleanStarts(seq_a, kmer_k))
           /\ result.k = kmer_k

\* C6 witness: a handle count with k = 2 on a sequence in which an ambiguous
\* base separates two clean windows.
C6_Witness ==
    /\ pc = "count_kmers"
    /\ kmer_k = 2
    /\ Len(seq_a) = 4
    /\ RefCode(seq_a[3]) = 4
    /\ result.total_valid = 1

\* C7: count_kmers_dense_canonical gives the same counts and total_valid on s
\* and on reverse_complement(s), for every k.
C7_CanonicalStrandSymmetry ==
    pc = "count_kmers_dense_canonical"
        => LET other == count_kmers_dense_canonical(reverse_complement(seq_a), kmer_k)
           IN  /\ result.counts = other.counts
               /\ result.total_valid = other.total_valid

\* C7 witness: a canonical count with k = 2 on a sequence that is not its own
\* reverse complement and has two clean windows.
C7_Witness ==
    /\ pc = "count_kmers_dense_canonical"
    /\ kmer_k = 2
    /\ reverse_complement(seq_a) # seq_a
    /\ result.total_valid >= 2
    /\ count_kmers_dense(seq_a, 2).counts
         # count_kmers_dense(reverse_complement(seq_a), 2).counts

---------------------------------------------------------------------------
(* GC skew.  A skew value (g - c) / (g + c) is kept as the pair of its     *)
(* numerator and denominator, 0.0 as <<0, 1>>; two f64 quotients of small  *)
(* integers are equal exactly when the fractions are.                      *)

\* `if gc_sum > 0 { (g - c) / gc_sum } else { 0.0 }`
Skew(g_count, c_count) ==
    IF g_count + c_count > 0
    THEN <<g_count - c_count, g_count + c_count>>
    ELSE <<0, 1>>

\* usize::saturating_sub(1)
saturating_sub1(x) == IF x > 0 THEN x - 1 ELSE 0

\* `for i in lo..hi { if i < length { match encoded[i] { G => g += 1, ... } } }`
\* on 0-based i; cnt is <<g_count, c_count>>.
RECURSIVE AddEntering(_, _, _, _)
AddEntering(h, i, hi, cnt) ==
    IF i >= hi THEN cnt
    ELSE AddEntering(h, i + 1, hi,
           IF i < h.length
           THEN CASE h.encoded[i + 1] = SEQ_BASE_G -> <<cnt[1] + 1, cnt[2]>>
                  [] h.encoded[i + 1] = SEQ_BASE_C -> <<cnt[1], cnt[2] + 1>>
                  [] OTHER -> cnt
           ELSE cnt)

\* The same loop with saturating_sub(1) on the bases that leave the window.
RECURSIVE RemoveExiting(_, _, _, _)
RemoveExiting(h, i, hi, cnt) ==
    IF i >= hi THEN cnt
    ELSE RemoveExiting(h, i + 1, hi,
           IF i < h.length
           THEN CASE h.encoded[i + 1] = SEQ_BASE_G -> <<saturating_sub1(cnt[1]), cnt[2]>>
                  [] h.encoded[i + 1] = SEQ_BASE_C -> <<cnt[1], saturating_sub1(cnt[2])>>
                  [] OTHER -> cnt
           ELSE cnt)

\* The `while pos + window_size <= self.length` loop.
RECURSIVE Slide(_, _, _, _, _, _)
Slide(h, window, step, pos, cnt, out) ==
    IF pos + window > h.length THEN out
    ELSE LET removed == RemoveExiting(h, pos - step, pos, cnt)
             added == AddEntering(h, pos + window - step, pos + window, removed)
         IN  Slide(h, window, step, pos + step, added,
                   Append(out, Skew(added[1], added[2])))

\* gc_skew that shortens a window longer than the sequence to the sequence.
GcSkewClampsWindow(h, window, step) ==
    IF window = 0 \/ step = 0 \/ h.length = 0
    THEN <<>>
    ELSE LET w == Min(window, h.length)
             first == AddEntering(h, 0, w, <<0, 0>>)
         IN  Slide(h, w, step, step, first, <<Skew(first[1], first[2])>>)

\* SequenceHandle::gc_skew
gc_skew(h, window, step) ==
    IF window = 0 \/ step = 0 \/ h.length < window
    THEN <<>>
    ELSE LET first == AddEntering(h, 0, window, <<0, 0>>)
         IN  Slide(h, window, step, step, first, <<Skew(first[1], first[2])>>)

\* compute_gc_skew: every window is counted again from the bytes.
compute_gc_skew(seq, window, step) ==
    IF window = 0 \/ step = 0 \/ Len(seq) < window
    THEN <<>>
    ELSE LET num_windows == (Len(seq) - window) \div step + 1
         IN  [w \in 1..num_windows |->
                LET start == (w - 1) * step
                    g_count == Cardinality({j \in 1..window : seq[start + j] \in {71, 103}})
                    c_count == Cardinality({j \in 1..window : seq[start + j] \in {67, 99}})
                IN  Skew(g_count, c_count)]

---------------------------------------------------------------------------
(* Specification of GC skew: the caller encodes a sequence and asks for    *)
(* the skew by the handle or by the byte function.                         *)

\* Bytes given to the skew: G, C, c and A.
SkewBytes == {71, 67, 99, 65}

InitSkew ==
    /\ pc = "ready"
    /\ seq_a \in SeqsUpTo(SkewBytes, MaxLen + 1)
    /\ seq_b = <<>>
    /\ max_d = 0
    /\ handle = NoHandle
    /\ kmer_k = 0
    /\ window_size = 0
    /\ step_size = 0
    /\ num_hashes = 0
    /\ bins = 0
    /\ result = NoResult

HandleGcSkew ==
    /\ handle # NoHandle
    /\ \E w \in 0..(MaxLen + 2), st \in 0..(MaxLen + 1) :
         /\ window_size' = w
         /\ step_size' = st
         /\ result' = gc_skew(handle, w, st)
    /\ pc' = "gc_skew"
    /\ UNCHANGED <<seq_a, seq_b, max_d, handle, kmer_k,
                 num_hashes, bins>>

ComputeGcSkew ==
    /\ \E w \in 0..(MaxLen + 2), st \in 0..(MaxLen + 1) :
         /\ window_size' = w
         /\ step_size' = st
         /\ result' = compute_gc_skew(seq_a, w, st)
    /\ pc' = "compute_gc_skew"
    /\ UNCHANGED <<seq_a, seq_b, max_d, handle, kmer_k,
                 num_hashes, bins>>

NextSkew == New \/ HandleGcSkew \/ ComputeGcSkew

SpecSkew == InitSkew /\ [][NextSkew]_vars

---------------------------------------------------------------------------
(* Properties of GC skew, checked under SpecSkew.                          *)

\* Two skew values are the same number.
SameSkew(p, q) == p[1] * q[2] = q[1] * p[2]

\* (G - C) / (G + C) over the 0-based positions [lo, lo + window) of the bytes.
WindowSkew(seq, lo, window) ==
    LET g == Cardinality({j \in (lo + 1)..(lo + window) : seq[j] \in {71, 103}})
        c == Cardinality({j \in (lo + 1)..(lo + window) : seq[j] \in {67, 99}})
    IN  IF g + c = 0 THEN <<0, 1>> ELSE <<g - c, g + c>>

GcSkewIsWindowed ==
    /\ Len(result) = (Len(seq_a) - window_size) \div step_size + 1
    /\ \A i \in 0..(Len(result) - 1) :
         SameSkew(result[i + 1], WindowSkew(seq_a, i * step_size, window_size))
    /\ Len(result) = Len(compute_gc_skew(seq_a, window_size, step_size))
    /\ \A i \in 1..Len(result) :
         SameSkew(result[i], compute_gc_skew(seq_a, window_size, step_size)[i])

\* C8: for window >= 1, step >= 1 and window <= n, SequenceHandle::gc_skew
\* returns floor((n - window) / step) + 1 values, value i being
\* (G - C) / (G + C) over the positions [i * step, i * step + window), the
\* values of compute_gc_skew, also when step > window.
C8_GcSkewMatchesRescan ==
    (pc = "gc_skew" /\ window_size >= 1 /\ step_size >= 1
       /\ window_size <= Len(seq_a))
        => GcSkewIsWindowed

\* The same statement for the steps that leave no gap between two windows.
GcSkewMatchesRescanWithoutGap ==
    (pc = "gc_skew" /\ window_size >= 1 /\ step_size >= 1
       /\ window_size <= Len(seq_a) /\ step_size <= window_size)
        => GcSkewIsWindowed

\* compute_gc_skew is the windowed skew for every window and step.
ComputeGcSkewIsWindowed ==
    (pc = "compute_gc_skew" /\ window_size >= 1 /\ step_size >= 1
       /\ window_size <= Len(seq_a))
        => GcSkewIsWindowed

---------------------------------------------------------------------------
(* Specification of the equal-length comparison: a caller holds two byte   *)
(* sequences of any two lengths and calls equal_len_diff.                  *)

\* Bytes given to equal_len_diff: A, T, u and N.
EqualLenBytes == {65, 84, 117, 78}

InitEqualLen ==
    /\ pc = "ready"
    /\ seq_a \in SeqsUpTo(EqualLenBytes, MaxLen)
    /\ seq_b \in SeqsUpTo(EqualLenBytes, MaxLen)
    /\ max_d = DIFF_MAX_EDIT_DISTANCE
    /\ handle = NoHandle
    /\ kmer_k = 0
    /\ window_size = 0
    /\ step_size = 0
    /\ num_hashes = 0
    /\ bins = 0
    /\ result = NoResult

NextEqualLen == CallEqualLenDiff

SpecEqualLen == InitEqualLen /\ [][NextEqualLen]_vars

\* Base equality: neither byte is N or n, and the two are the same byte
\* after upper-casing with U read as T.
RefBaseEqual(x, y) ==
    /\ Canonical(x) # 78
    /\ Canonical(y) # 78
    /\ Canonical(x) = Canonical(y)

\* C11: equal_len_diff on unequal lengths returns truncated=true, a
\* non-empty error and empty masks; on equal lengths n it returns
\* truncated=false, no error, mask_a = mask_b of length n holding Match at i
\* exactly when A[i] and B[i] are equal bases and Mismatch elsewhere,
\* matches + mismatches = n, insertions = deletions = 0 and
\* edit_distance = mismatches.
C11_EqualLenDiffContract ==
    pc = "equal_len" =>
        IF Len(seq_a) # Len(seq_b)
        THEN /\ result.truncated
             /\ result.error # None
             /\ result.mask_a = <<>>
             /\ result.mask_b = <<>>
        ELSE /\ ~result.truncated
             /\ result.error = None
             /\ result.mask_a = result.mask_b
             /\ Len(result.mask_a) = Len(seq_a)
             /\ \A i \in 1..Len(seq_a) :
                  result.mask_a[i] = IF RefBaseEqual(seq_a[i], seq_b[i])
                                     THEN DIFF_OP_MATCH ELSE DIFF_OP_MISMATCH
             /\ result.matches + result.mismatches = Len(seq_a)
             /\ result.mismatches =
                  Cardinality({i \in 1..Len(seq_a) : result.mask_a[i] = DIFF_OP_MISMATCH})
             /\ result.insertions = 0
             /\ result.deletions = 0
             /\ result.edit_distance = result.mismatches

\* C11 witness: equal_len_diff rejected inputs of lengths 3 and 2.
C11_Witness ==
    /\ pc = "equal_len"
    /\ Len(seq_a) = 3
    /\ Len(seq_b) = 2
    /\ result.truncated
    /\ result.error # None

---------------------------------------------------------------------------
(* Specification of the length ceiling: the caller passes inputs at and    *)
(* above DIFF_MAX_LEN bytes to myers_diff_with_limit, against short,       *)
(* empty, identical and oversized second inputs.  An input of half a       *)
(* million bytes is a run of one byte; here seq_a and seq_b hold the run   *)
(* as [byte, len] and the call is made on the expanded byte sequence.      *)

\* The byte sequence of a run.
Expand(run) == Repeat(run.byte, run.len)

\* Lengths around the ceiling: the longest accepted, and one and two more.
CeilingLens == {DIFF_MAX_LEN, DIFF_MAX_LEN + 1, DIFF_MAX_LEN + 2}

RunInputs ==
    {[byte |-> 65, len |-> 0]}
      \cup [byte : LongBytes, len : (1..MaxLen) \cup CeilingLens]

\* One input at least is around the ceiling.  An input of exactly
\* DIFF_MAX_LEN bytes is accepted: it is paired with an empty or an
\* oversized input only, a scan or a search over 500000 bytes being out of
\* reach.
InitLength ==
    /\ pc = "ready"
    /\ seq_a \in RunInputs
    /\ seq_b \in RunInputs
    /\ seq_a.len \in CeilingLens \/ seq_b.len \in CeilingLens
    /\ (seq_a.len <= DIFF_MAX_LEN /\ seq_b.len <= DIFF_MAX_LEN)
         => (seq_a.len = 0 \/ seq_b.len = 0)
    /\ max_d \in Budgets
    /\ handle = NoHandle
    /\ kmer_k = 0
    /\ window_size = 0
    /\ step_size = 0
    /\ num_hashes = 0
    /\ bins = 0
    /\ result = NoResult

CallMyersDiffOnRuns ==
    /\ pc = "ready"
    /\ result' = myers_diff_with_limit(Expand(seq_a), Expand(seq_b), max_d)
    /\ pc' = "diff"
    /\ UNCHANGED <<seq_a, seq_b, max_d, handle, kmer_k, window_size, step_size,
                 num_hashes, bins>>

NextLength == CallMyersDiffOnRuns

SpecLength == InitLength /\ [][NextLength]_vars

\* C12: when len(A) or len(B) exceeds DIFF_MAX_LEN, myers_diff_with_limit
\* returns truncated=true, a non-empty error, empty masks and all counts
\* zero, whatever the other input is (empty, identical, short).
C12_LengthCeilingRejects ==
    (pc = "diff" /\ (seq_a.len > DIFF_MAX_LEN \/ seq_b.len > DIFF_MAX_LEN))
        => /\ result.truncated
           /\ result.error # None
           /\ result.mask_a = <<>>
           /\ result.mask_b = <<>>
           /\ result.edit_distance = 0
           /\ result.matches = 0
           /\ result.mismatches = 0
           /\ result.insertions = 0
           /\ result.deletions = 0

\* C12 witness: an input one byte over the ceiling was diffed against
\* itself and rejected.
C12_Witness ==
    /\ pc = "diff"
    /\ seq_a.len = DIFF_MAX_LEN + 1
    /\ seq_b = seq_a
    /\ result.truncated
    /\ result.mask_a = <<>>

\* C12 witness of the empty case: an oversized input against an empty one.
OversizedAgainstEmpty ==
    /\ pc = "diff"
    /\ seq_a.len = 0
    /\ seq_b.len = DIFF_MAX_LEN + 1
    /\ result.truncated

\* An input of exactly DIFF_MAX_LEN bytes is not rejected.
CeilingInputIsAccepted ==
    (pc = "diff" /\ seq_a.len <= DIFF_MAX_LEN /\ seq_b.len <= DIFF_MAX_LEN)
        => /\ ~result.truncated
           /\ result.edit_distance = DIFF_MAX_LEN

---------------------------------------------------------------------------
(* Specification of diff on mixed-case and RNA inputs.                     *)

\* Bytes given to the diff: a, T, u and n.
MixedBytes == {97, 84, 117, 110}

\* Budgets of the mixed-case calls: a small one and myers_diff's default.
MixedBudgets == {MaxBudget - 1, DIFF_MAX_EDIT_DISTANCE}

InitMixed ==
    /\ pc = "ready"
    /\ seq_a \in SeqsUpTo(MixedBytes, MaxLen)
    /\ seq_b \in SeqsUpTo(MixedBytes, MaxLen)
    /\ max_d \in MixedBudgets
    /\ handle = NoHandle
    /\ kmer_k = 0
    /\ window_size = 0
    /\ step_size = 0
    /\ num_hashes = 0
    /\ bins = 0
    /\ result = NoResult

NextMixed == CallMyersDiffWithLimit

SpecMixed == InitMixed /\ [][NextMixed]_vars

\* The sequence with every byte in upper case and U written as T.
CanonicalSeq(s) == [i \in 1..Len(s) |-> Canonical(s[i])]

\* The result of diff (masks, edit_distance, counts, truncated, error) is the
\* result on the upper-case, T-for-U copies of the inputs: replacing bytes by
\* bytes of the same normalisation changes nothing.
DiffUnchangedByNormalisation ==
    LET other == myers_diff_with_limit(CanonicalSeq(seq_a), CanonicalSeq(seq_b), max_d)
    IN  /\ result.mask_a = other.mask_a
        /\ result.mask_b = other.mask_b
        /\ result.edit_distance = other.edit_distance
        /\ result.matches = other.matches
        /\ result.mismatches = other.mismatches
        /\ result.insertions = other.insertions
        /\ result.deletions = other.deletions
        /\ result.truncated = other.truncated
        /\ (result.error = None) = (other.error = None)

\* C13 as stated: the whole result of diff is unchanged when bytes are
\* replaced by bytes of the same normalisation (other letter case, U/u for
\* T/t), and any sequence and its lower-cased or U-for-T copy have edit
\* distance 0.
C13_AnyCopyHasDistanceZero ==
    pc = "diff" =>
        /\ DiffUnchangedByNormalisation
        /\ CanonicalSeq(seq_a) = CanonicalSeq(seq_b) => result.edit_distance = 0

\* C13 amended: the whole result of diff is unchanged when bytes are replaced
\* by bytes of the same normalisation, and a sequence without N or n and its
\* lower-cased or U-for-T copy have edit distance 0.
C13_DiffIgnoresCaseAndU ==
    pc = "diff" =>
        /\ DiffUnchangedByNormalisation
        /\ (CanonicalSeq(seq_a) = CanonicalSeq(seq_b) /\ ~HasN(seq_a))
             => (result.edit_distance = 0 /\ ~result.truncated)

\* C13 witness: a diff of two different byte strings of full length that are
\* U-for-T copies of each other, with distance 0.
C13_Witness ==
    /\ pc = "diff"
    /\ Len(seq_a) = MaxLen
    /\ seq_a # seq_b
    /\ CanonicalSeq(seq_a) = CanonicalSeq(seq_b)
    /\ \E i \in 1..MaxLen : seq_a[i] = 117 /\ seq_b[i] = 84
    /\ result.edit_distance = 0
    /\ result.matches = MaxLen

---------------------------------------------------------------------------
(* 32- and 64-bit words.  A u32 is the tuple of its 4 bytes and a u64 the  *)
(* tuple of its 8 bytes, least significant byte first: U32_MAX is          *)
(* <<255, 255, 255, 255>>.  Wrapping multiplication, xor and shifts are    *)
(* computed on the bytes, so every intermediate value stays small.         *)

U32_MAX == <<255, 255, 255, 255>>

RECURSIVE Pow2(_)
Pow2(n) == IF n = 0 THEN 1 ELSE 2 * Pow2(n - 1)

\* n.to_le_bytes() on nbytes bytes: the bytes of a non-negative integer,
\* least significant first.
RECURSIVE Word(_, _)
Word(n, nbytes) ==
    IF nbytes = 0 THEN <<>> ELSE <<n % 256>> \o Word(n \div 256, nbytes - 1)

\* `seed as u64`, `index as u64`: zero extension to 8 bytes.
AsU64(w) == [i \in 1..8 |-> IF i <= Len(w) THEN w[i] ELSE 0]

\* `x as u32`: the low 4 bytes.
AsU32(w) == [i \in 1..4 |-> w[i]]

RECURSIVE XorByte(_, _, _)
XorByte(a, b, bits) ==
    IF bits = 0 THEN 0
    ELSE ((a + b) % 2) + 2 * XorByte(a \div 2, b \div 2, bits - 1)

\* x ^ y
Xor(x, y) == [i \in 1..Len(x) |-> XorByte(x[i], y[i], 8)]

\* x >> s
Shr(x, s) ==
    LET q == s \div 8
        r == s % 8
        byte(i) == IF i <= Len(x) THEN x[i] ELSE 0
    IN  [i \in 1..Len(x) |->
           (byte(i + q) \div Pow2(r)) + (byte(i + q + 1) % Pow2(r)) * Pow2(8 - r)]

\* Byte column j of the product: the sum of x[i] * c[j + 1 - i].
RECURSIVE Column(_, _, _, _)
Column(x, c, j, i) ==
    IF i > j THEN 0 ELSE x[i] * c[j + 1 - i] + Column(x, c, j, i + 1)

RECURSIVE MulFrom(_, _, _, _)
MulFrom(x, c, j, carry) ==
    IF j > Len(x) THEN <<>>
    ELSE LET t == Column(x, c, j, 1) + carry
         IN  <<t % 256>> \o MulFrom(x, c, j + 1, t \div 256)

\* x.wrapping_mul(c), x and c of the same width.
wrapping_mul(x, c) == MulFrom(x, c, 1, 0)

\* a < b on words of the same width.
RECURSIVE WordLessFrom(_, _, _)
WordLessFrom(a, b, i) ==
    IF i = 0 THEN FALSE
    ELSE IF a[i] # b[i] THEN a[i] < b[i]
    ELSE WordLessFrom(a, b, i - 1)

WordLess(a, b) == WordLessFrom(a, b, Len(a))

---------------------------------------------------------------------------
(* MinHash: signature comparison.  A similarity matches / len is kept as   *)
(* the pair <<matches, len>>, 0.0 as <<0, 1>>.                             *)

\* The comparison without the test for empty (all-MAX) signatures.
JaccardWithoutEmptyTest(sig_a, sig_b) ==
    IF Len(sig_a) # Len(sig_b) \/ Len(sig_a) = 0
    THEN <<0, 1>>
    ELSE <<Cardinality({i \in 1..Len(sig_a) : sig_a[i] = sig_b[i]}), Len(sig_a)>>

minhash_jaccard_from_signatures(sig_a, sig_b) ==
    IF Len(sig_a) # Len(sig_b) \/ Len(sig_a) = 0
    THEN <<0, 1>>
    ELSE LET empty_a == \A i \in 1..Len(sig_a) : sig_a[i] = U32_MAX
             empty_b == \A i \in 1..Len(sig_b) : sig_b[i] = U32_MAX
         IN  IF empty_a \/ empty_b
             THEN <<0, 1>>
             ELSE <<Cardinality({i \in 1..Len(sig_a) : sig_a[i] = sig_b[i]}),
                    Len(sig_a)>>

---------------------------------------------------------------------------
(* Specification of signature comparison: the caller holds two signatures  *)
(* (in seq_a and seq_b) and compares them.                                 *)

\* Signature entries: 0, 1, the largest value below the maximum, the maximum.
SignatureWords == {Word(0, 4), Word(1, 4), <<254, 255, 255, 255>>, U32_MAX}

InitJaccard ==
    /\ pc = "ready"
    /\ seq_a \in SeqsUpTo(SignatureWords, MaxLen)
    /\ seq_b \in SeqsUpTo(SignatureWords, MaxLen)
    /\ max_d = 0
    /\ handle = NoHandle
    /\ kmer_k = 0
    /\ window_size = 0
    /\ step_size = 0
    /\ num_hashes = 0
    /\ bins = 0
    /\ result = NoResult

CallMinhashJaccard ==
    /\ pc = "ready"
    /\ result' = minhash_jaccard_from_signatures(seq_a, seq_b)
    /\ pc' = "jaccard"
    /\ UNCHANGED <<seq_a, seq_b, max_d, handle, kmer_k, window_size, step_size,
                 num_hashes, bins>>

NextJaccard == CallMinhashJaccard

SpecJaccard == InitJaccard /\ [][NextJaccard]_vars

\* A signature whose every entry is the maximum 32-bit value.
AllMax(sig) == \A i \in 1..Len(sig) : sig[i] = <<255, 255, 255, 255>>

\* C14: minhash_jaccard_from_signatures returns 0 when the lengths differ,
\* when the signatures have length 0 or when either is all-maximum (two
\* all-maximum signatures included); otherwise the number of agreeing
\* positions over the length; the result is in [0, 1], and a signature that
\* is not empty compared with itself gives 1.
C14_JaccardContract ==
    pc = "jaccard" =>
        /\ IF Len(seq_a) # Len(seq_b) \/ Len(seq_a) = 0 \/ AllMax(seq_a) \/ AllMax(seq_b)
           THEN result[1] = 0
           ELSE result[1] * Len(seq_a)
                  = Cardinality({i \in 1..Len(seq_a) : seq_a[i] = seq_b[i]}) * result[2]
        /\ result[2] > 0
        /\ 0 <= result[1]
        /\ result[1] <= result[2]
        /\ (seq_a = seq_b /\ Len(seq_a) > 0 /\ ~AllMax(seq_a)) => result[1] = result[2]

\* C14 witness: two signatures of full length, neither empty, one of them
\* holding a maximum entry, that agree everywhere but at one position.
C14_Witness ==
    /\ pc = "jaccard"
    /\ Len(seq_a) = MaxLen
    /\ Len(seq_b) = MaxLen
    /\ \E i \in 1..MaxLen : seq_a[i] = <<255, 255, 255, 255>>
    /\ result = <<MaxLen - 1, MaxLen>>

\* C14 witness of the empty case: two all-maximum signatures of full length
\* have similarity 0.
TwoEmptySignaturesCompared ==
    /\ pc = "jaccard"
    /\ Len(seq_a) = MaxLen
    /\ seq_a = seq_b
    /\ AllMax(seq_a)
    /\ result[1] = 0

---------------------------------------------------------------------------
(* MinHash: mixing function and canonical signature.                       *)

\* 0x9E3779B97F4A7C15, 0xBF58476D1CE4E5B9 and 0x94D049BB133111EB.
MIX_MUL_1 == <<21, 124, 74, 127, 185, 121, 55, 158>>
MIX_MUL_2 == <<185, 229, 228, 28, 109, 71, 88, 191>>
MIX_MUL_3 == <<235, 17, 49, 19, 187, 73, 208, 148>>

\* 0x9e3779b9, the multiplier of the seeds.
SEED_MUL == <<185, 121, 55, 158>>

mix_hash(index, seed) ==
    LET x0 == Xor(index, AsU64(seed))
        x1 == wrapping_mul(x0, MIX_MUL_1)
        x2 == wrapping_mul(Xor(x1, Shr(x1, 30)), MIX_MUL_2)
        x3 == wrapping_mul(Xor(x2, Shr(x2, 27)), MIX_MUL_3)
        x4 == Xor(x3, Shr(x3, 31))
    IN  AsU32(x4)

\* seeds[i] = (i as u32).wrapping_mul(0x9e3779b9), i 0-based.
Seed(i) == wrapping_mul(Word(i, 4), SEED_MUL)

MinHashSignature(signature, total_kmers, k) ==
    [signature |-> signature, total_kmers |-> total_kmers, k |-> k]

\* The signature update that stores every hash, smaller or not.
UpdateSignatureOverwrites(signature, index) ==
    [i \in 1..Len(signature) |-> mix_hash(Word(index, 8), Seed(i - 1))]

\* `for (i, &seed) in seeds: h = mix_hash(index, seed); if h < signature[i]
\* { signature[i] = h }`
UpdateSignature(signature, index) ==
    [i \in 1..Len(signature) |->
       LET h == mix_hash(Word(index, 8), Seed(i - 1))
       IN  IF WordLess(h, signature[i]) THEN h ELSE signature[i]]

\* The loop body hashing the forward index of every k-mer instead of the
\* smaller of the forward and reverse-complement indices.
MinhashStepForwardOnly(st, code, k) ==
    IF code = 4
    THEN [st EXCEPT !.fwd_index = 0, !.rc_index = 0, !.valid_bases = 0]
    ELSE LET fwd == (st.fwd_index * 4 + code) % Pow4(k)
             rc == (st.rc_index \div 4) + (3 - code) * Pow4(k - 1)
             vb == st.valid_bases + 1
         IN  IF vb >= k
             THEN [fwd_index |-> fwd, rc_index |-> rc, valid_bases |-> vb,
                   signature |-> UpdateSignature(st.signature, fwd),
                   total_kmers |-> st.total_kmers + 1]
             ELSE [st EXCEPT !.fwd_index = fwd, !.rc_index = rc, !.valid_bases = vb]

\* One iteration of the loop of minhash_signature_canonical on the code of
\* one byte (4: the arm that resets).  The indices are u64 values below 4^k:
\* integers until they are hashed.
MinhashStep(st, code, k) ==
    IF code = 4
    THEN [st EXCEPT !.fwd_index = 0, !.rc_index = 0, !.valid_bases = 0]
    ELSE LET fwd == (st.fwd_index * 4 + code) % Pow4(k)
             rc == (st.rc_index \div 4) + (3 - code) * Pow4(k - 1)
             vb == st.valid_bases + 1
             canonical == Min(fwd, rc)
         IN  IF vb >= k
             THEN [fwd_index |-> fwd, rc_index |-> rc, valid_bases |-> vb,
                   signature |-> UpdateSignature(st.signature, canonical),
                   total_kmers |-> st.total_kmers + 1]
             ELSE [st EXCEPT !.fwd_index = fwd, !.rc_index = rc, !.valid_bases = vb]

RECURSIVE MinhashLoop(_, _, _, _)
MinhashLoop(codes, i, k, st) ==
    IF i > Len(codes) THEN st
    ELSE MinhashLoop(codes, i + 1, k, MinhashStep(st, codes[i], k))

minhash_signature_canonical(seq, k_arg, n_hashes) ==
    LET k == Min(k_arg, 32)
    IN  IF k = 0 \/ n_hashes = 0 \/ Len(seq) < k
        THEN MinHashSignature(Repeat(U32_MAX, n_hashes), 0, k)
        ELSE LET st == MinhashLoop(BaseCodes(seq), 1, k,
                         [fwd_index |-> 0, rc_index |-> 0, valid_bases |-> 0,
                          signature |-> Repeat(U32_MAX, n_hashes),
                          total_kmers |-> 0])
             IN  MinHashSignature(st.signature, st.total_kmers, k)

\* The ASCII copy SequenceHandle::minhash makes of the encoded sequence.
Ascii(encoded) ==
    [i \in 1..Len(encoded) |->
       CASE encoded[i] = SEQ_BASE_A -> 65
         [] encoded[i] = SEQ_BASE_C -> 67
         [] encoded[i] = SEQ_BASE_G -> 71
         [] encoded[i] = SEQ_BASE_T -> 84
         [] OTHER -> 78]

\* SequenceHandle::minhash
minhash(h, n_hashes, k) ==
    IF k < 1 \/ k > 31 \/ h.length < k \/ n_hashes = 0
    THEN MinHashSignature(Repeat(U32_MAX, n_hashes), 0, k)
    ELSE minhash_signature_canonical(Ascii(h.encoded), k, n_hashes)

---------------------------------------------------------------------------
(* Specification of MinHash: the caller holds a byte sequence, may encode  *)
(* it into a handle, and asks once for the canonical signature of the      *)
(* bytes or of the handle.                                                 *)

\* Bytes given to MinHash: C, U and N (the other strand holds G and A).
MinhashBytes == {67, 85, 78}

\* The k's tried: 0, the small ones, and 31, 32 and 33 around the limits.
MinhashKs == (0..MaxK) \cup {31, 32, 33}

InitMinhash ==
    /\ pc = "ready"
    /\ seq_a \in SeqsUpTo(MinhashBytes, MaxLen)
    /\ seq_b = <<>>
    /\ max_d = 0
    /\ handle = NoHandle
    /\ kmer_k = 0
    /\ window_size = 0
    /\ step_size = 0
    /\ num_hashes = 0
    /\ bins = 0
    /\ result = NoResult

NewForMinhash ==
    /\ pc = "ready"
    /\ handle' = SequenceHandleNew(seq_a)
    /\ pc' = "new"
    /\ UNCHANGED <<seq_a, seq_b, max_d, kmer_k, window_size, step_size,
                 num_hashes, bins, result>>

CallMinhashSignatureCanonical ==
    /\ pc \in {"ready", "new"}
    /\ \E k \in MinhashKs, n \in 0..MaxHashes :
         /\ kmer_k' = k
         /\ num_hashes' = n
         /\ result' = minhash_signature_canonical(seq_a, k, n)
    /\ pc' = "minhash_signature_canonical"
    /\ UNCHANGED <<seq_a, seq_b, max_d, handle, window_size, step_size, bins>>

HandleMinhash ==
    /\ pc = "new"
    /\ \E k \in MinhashKs, n \in 0..MaxHashes :
         /\ kmer_k' = k
         /\ num_hashes' = n
         /\ result' = minhash(handle, n, k)
    /\ pc' = "minhash"
    /\ UNCHANGED <<seq_a, seq_b, max_d, handle, window_size, step_size, bins>>

NextMinhash == NewForMinhash \/ CallMinhashSignatureCanonical \/ HandleMinhash

SpecMinhash == InitMinhash /\ [][NextMinhash]_vars

---------------------------------------------------------------------------
(* Properties of MinHash, checked under SpecMinhash.                       *)

\* The window read on the other strand: the complements of its bases in
\* reverse order, packed with the first base most significant.
RECURSIVE PackReverseComplement(_, _, _)
PackReverseComplement(s, p, k) ==
    IF k = 0 THEN 0
    ELSE (3 - RefCode(s[p + 1])) + 4 * PackReverseComplement(s, p + 1, k - 1)

\* The canonical indices of the ambiguity-free windows of length k.
CanonicalKmers(s, k) ==
    {Min(PackWindow(s, p, k), PackReverseComplement(s, p, k)) :
       p \in CleanStarts(s, k)}

\* The smallest of a non-empty set of words.
LeastWord(S) == CHOOSE h \in S : \A g \in S : ~WordLess(g, h)

\* C15: for k in 1..31 and seed_count >= 1 the signature of
\* minhash_signature_canonical and of SequenceHandle::minhash has seed_count
\* entries, entry i being the minimum of mix_hash(canonical index, seed_i)
\* over the ambiguity-free windows of length k, the maximum 32-bit value
\* when there is none, and total_kmers is the number of those windows.
C15_SignatureIsMinimumOverKmers ==
    (pc \in {"minhash_signature_canonical", "minhash"}
       /\ kmer_k >= 1 /\ kmer_k <= 31 /\ num_hashes >= 1)
        => /\ Len(result.signature) = num_hashes
           /\ \A i \in 1..num_hashes :
                result.signature[i] =
                  IF CleanStarts(seq_a, kmer_k) = {}
                  THEN <<255, 255, 255, 255>>
                  ELSE LeastWord({mix_hash(Word(c, 8), Seed(i - 1)) :
                                    c \in CanonicalKmers(seq_a, kmer_k)})
           /\ result.total_kmers = Cardinality(CleanStarts(seq_a, kmer_k))

\* C15 witness: a two-seed signature from a handle, k = 2, over a sequence of
\* full length with two clean windows of different canonical index, the
\* second one giving the smaller hash under the first seed.
C15_Witness ==
    /\ pc = "minhash"
    /\ kmer_k = 2
    /\ num_hashes = MaxHashes
    /\ Len(seq_a) = MaxLen
    /\ result.total_kmers = 2
    /\ Cardinality(CanonicalKmers(seq_a, 2)) = 2
    /\ result.signature[1]
         # mix_hash(Word(Min(PackWindow(seq_a, 0, 2), PackReverseComplement(seq_a, 0, 2)), 8),
                    Seed(0))

\* C16: minhash_signature_canonical gives the same signature and the same
\* total_kmers on s and on reverse_complement(s), for every k and num_hashes.
C16_SignatureStrandSymmetry ==
    pc = "minhash_signature_canonical"
        => LET other == minhash_signature_canonical(reverse_complement(seq_a),
                                                    kmer_k, num_hashes)
           IN  /\ result.signature = other.signature
               /\ result.total_kmers = other.total_kmers

\* C16 witness: a signature with k = 2 of a sequence that is not its own
\* reverse complement, with two k-mers whose forward indices are not those of
\* the other strand.
C16_Witness ==
    /\ pc = "minhash_signature_canonical"
    /\ kmer_k = 2
    /\ num_hashes = MaxHashes
    /\ result.total_kmers = 2
    /\ reverse_complement(seq_a) # seq_a
    /\ {PackWindow(seq_a, p, 2) : p \in 0..1}
         # {PackWindow(reverse_complement(seq_a), p, 2) : p \in 0..1}

---------------------------------------------------------------------------
(* Dot plot.  An identity same / window (f32) is kept as the pair          *)
(* <<same, window>>.  The starts are floor(i * (span / (bins - 1))) in     *)
(* f64: the quotient and the product are each rounded to 53 significant    *)
(* bits, to nearest, ties to even.  A positive f64 is the record of the    *)
(* two halves of its mantissa, hi of 27 bits (the first one set) and lo of *)
(* 26 bits, and of the exponent of its first bit: its value is             *)
(* (hi * 2^26 + lo) * 2^(exp - 52).                                        *)

LowHalf == Pow2(26)

F64(hi, lo, exponent) == [hi |-> hi, lo |-> lo, exp |-> exponent]

\* The number of halvings of a that stay at b or above, and of doublings of
\* a needed to reach b.
RECURSIVE ExponentUp(_, _)
ExponentUp(a, b) == IF a \div 2 >= b THEN 1 + ExponentUp(a \div 2, b) ELSE 0

RECURSIVE ExponentDown(_, _)
ExponentDown(a, b) == IF a >= b THEN 0 ELSE 1 + ExponentDown(2 * a, b)

\* Rounding to nearest, ties to even: the 53 bits kept, the first bit
\* dropped (guard) and whether any later bit is set (sticky).
F64Round(hi, lo, exponent, guard, sticky) ==
    IF guard = 1 /\ (sticky \/ lo % 2 = 1)
    THEN IF lo + 1 < LowHalf THEN F64(hi, lo + 1, exponent)
         ELSE IF hi + 1 < 2 * LowHalf THEN F64(hi + 1, 0, exponent)
         ELSE F64(LowHalf, 0, exponent + 1)
    ELSE F64(hi, lo, exponent)

\* a as f64 / b as f64, for integers a, b > 0: long division of a / b scaled
\* into [1, 2), 27 bits, 26 bits and the guard bit.
F64Div(a, b) ==
    LET e == IF a >= b THEN ExponentUp(a, b) ELSE 0 - ExponentDown(a, b)
        num == IF e >= 0 THEN a ELSE a * Pow2(0 - e)
        den == IF e >= 0 THEN b * Pow2(e) ELSE b
        hi == (num * LowHalf) \div den
        r1 == (num * LowHalf) % den
        lo == (r1 * LowHalf) \div den
        r2 == (r1 * LowHalf) % den
    IN  F64Round(hi, lo, e, (2 * r2) \div den, (2 * r2) % den # 0)

\* (factor as f64) * x, for an integer 0 < factor < 2^26: the exact product
\* top * 2^26 + low, of 53 + shift bits, rounded to its first 53.
F64MulInt(factor, x) ==
    LET t == factor * x.lo
        top == factor * x.hi + t \div LowHalf
        low == t % LowHalf
        shift == ExponentUp(top, LowHalf)
        dropped == low % Pow2(shift)
    IN  F64Round(top \div Pow2(shift),
                 (top % Pow2(shift)) * (LowHalf \div Pow2(shift))
                   + low \div Pow2(shift),
                 x.exp + shift,
                 IF shift = 0 THEN 0 ELSE dropped \div Pow2(shift - 1),
                 shift > 0 /\ dropped % Pow2(shift - 1) # 0)

\* x.floor() as usize
F64Floor(x) ==
    IF x.exp < 0 THEN 0
    ELSE IF x.exp <= 26 THEN x.hi \div Pow2(26 - x.exp)
    ELSE IF x.exp <= 52
    THEN x.hi * Pow2(x.exp - 26) + x.lo \div Pow2(52 - x.exp)
    ELSE (x.hi * LowHalf + x.lo) * Pow2(x.exp - 52)

DotPlotBuffers(direct, inverted, bins_out, window_out) ==
    [direct |-> direct, inverted |-> inverted, bins |-> bins_out,
     window |-> window_out]

dotplot_upper_ascii(byte) == IF byte >= 97 /\ byte <= 122 THEN byte - 32 ELSE byte

dotplot_complement_upper(byte) ==
    CASE byte = 65 -> 84 [] byte = 84 -> 65 [] byte = 71 -> 67 [] byte = 67 -> 71
      [] byte = 78 -> 78
      [] byte = 82 -> 89 [] byte = 89 -> 82
      [] byte = 83 -> 83 [] byte = 87 -> 87
      [] byte = 75 -> 77 [] byte = 77 -> 75
      [] byte = 66 -> 86 [] byte = 68 -> 72 [] byte = 72 -> 68 [] byte = 86 -> 66
      [] OTHER -> byte

\* The window with 0 read as a window of one base.
DotplotWindowZeroIsOne(len, bins_arg, window_arg) == Max(1, Min(len, window_arg))

\* The window used: the default when the argument is 0, clamped to [1, len].
DotplotWindow(len, bins_arg, window_arg) ==
    LET base == IF len \div bins_arg = 0 THEN len ELSE len \div bins_arg
        derived_window == Max(20, base)
        w == IF window_arg = 0 THEN derived_window ELSE window_arg
    IN  Max(1, Min(len, w))

\* starts[], 1-indexed here: Starts(..)[i + 1] is starts[i].
Starts(len, bins_arg, window) ==
    [i \in 1..bins_arg |->
       IF bins_arg > 1 /\ i > 1 /\ len > window
       THEN Min(F64Floor(F64MulInt(i - 1, F64Div(len - window, bins_arg - 1))),
                len - window)
       ELSE 0]

\* complement_encoded without the complement: every code maps to itself.
ComplementEncodedIdentity(code) == code

complement_encoded(code) == IF code <= 3 THEN 3 - code ELSE code

\* same_dir and same_inv of SequenceHandle::dotplot_self for the windows at
\* a0 and b0.
HandleSameDir(encoded, a0, b0, window) ==
    Cardinality({k \in 0..(window - 1) :
                   encoded[a0 + k + 1] <= 3 /\ encoded[a0 + k + 1] = encoded[b0 + k + 1]})

HandleSameInv(encoded, a0, b0, window) ==
    Cardinality({k \in 0..(window - 1) :
                   LET a_rc == complement_encoded(encoded[a0 + (window - 1 - k) + 1])
                   IN  a_rc <= 3 /\ a_rc = encoded[b0 + k + 1]})

\* The row and the column of the 1-based cell p of a row-major matrix, and
\* the pair (i, j), i <= j, whose loop iteration writes it (idx1 or idx2).
CellRow(p, bins_arg) == (p - 1) \div bins_arg
CellCol(p, bins_arg) == (p - 1) % bins_arg
WriterI(p, bins_arg) == Min(CellRow(p, bins_arg), CellCol(p, bins_arg))
WriterJ(p, bins_arg) == Max(CellRow(p, bins_arg), CellCol(p, bins_arg))

\* SequenceHandle::dotplot_self
dotplot_self(h, bins_arg, window_arg) ==
    IF h.length = 0 \/ bins_arg = 0
    THEN DotPlotBuffers(<<>>, <<>>, 0, 0)
    ELSE LET len == h.length
             window == DotplotWindow(len, bins_arg, window_arg)
             starts == Starts(len, bins_arg, window)
         IN  DotPlotBuffers(
               [p \in 1..(bins_arg * bins_arg) |->
                  <<HandleSameDir(h.encoded, starts[WriterI(p, bins_arg) + 1],
                                  starts[WriterJ(p, bins_arg) + 1], window), window>>],
               [p \in 1..(bins_arg * bins_arg) |->
                  <<HandleSameInv(h.encoded, starts[WriterI(p, bins_arg) + 1],
                                  starts[WriterJ(p, bins_arg) + 1], window), window>>],
               bins_arg, window)

\* same_dir and same_inv of dotplot_self_buffers on the upper-cased bytes.
BuffersSameDir(upper, a0, b0, window) ==
    Cardinality({k \in 0..(window - 1) : upper[a0 + k + 1] = upper[b0 + k + 1]})

BuffersSameInv(upper, a0, b0, window) ==
    Cardinality({k \in 0..(window - 1) :
                   dotplot_complement_upper(upper[a0 + (window - 1 - k) + 1])
                     = upper[b0 + k + 1]})

dotplot_self_buffers(seq, bins_arg, window_arg) ==
    IF Len(seq) = 0 \/ bins_arg = 0
    THEN DotPlotBuffers(<<>>, <<>>, 0, 0)
    ELSE LET upper == [i \in 1..Len(seq) |-> dotplot_upper_ascii(seq[i])]
             len == Len(upper)
             window == DotplotWindow(len, bins_arg, window_arg)
             starts == Starts(len, bins_arg, window)
         IN  DotPlotBuffers(
               [p \in 1..(bins_arg * bins_arg) |->
                  <<BuffersSameDir(upper, starts[WriterI(p, bins_arg) + 1],
                                   starts[WriterJ(p, bins_arg) + 1], window), window>>],
               [p \in 1..(bins_arg * bins_arg) |->
                  <<BuffersSameInv(upper, starts[WriterI(p, bins_arg) + 1],
                                   starts[WriterJ(p, bins_arg) + 1], window), window>>],
               bins_arg, window)

---------------------------------------------------------------------------
(* Specification of the dot plot: the caller holds a byte sequence, may    *)
(* encode it into a handle, and asks once for the dot plot of the handle   *)
(* or of the bytes.                                                        *)

\* Bytes given to the dot plot: A, C, t, U and N.
DotplotBytes == {65, 67, 116, 85, 78}

InitDotplot ==
    /\ pc = "ready"
    /\ seq_a \in SeqsUpTo(DotplotBytes, MaxLen)
    /\ seq_b = <<>>
    /\ max_d = 0
    /\ handle = NoHandle
    /\ kmer_k = 0
    /\ window_size = 0
    /\ step_size = 0
    /\ num_hashes = 0
    /\ bins = 0
    /\ result = NoResult

NewForDotplot ==
    /\ pc = "ready"
    /\ handle' = SequenceHandleNew(seq_a)
    /\ pc' = "new"
    /\ UNCHANGED <<seq_a, seq_b, max_d, kmer_k, window_size, step_size,
                 num_hashes, bins, result>>

HandleDotplotSelf ==
    /\ pc = "new"
    /\ \E b \in 0..MaxBins, w \in 0..(MaxLen + 1) :
         /\ bins' = b
         /\ window_size' = w
         /\ result' = dotplot_self(handle, b, w)
    /\ pc' = "dotplot_self"
    /\ UNCHANGED <<seq_a, seq_b, max_d, handle, kmer_k, step_size, num_hashes>>

CallDotplotSelfBuffers ==
    /\ pc \in {"ready", "new"}
    /\ \E b \in 0..MaxBins, w \in 0..(MaxLen + 1) :
         /\ bins' = b
         /\ window_size' = w
         /\ result' = dotplot_self_buffers(seq_a, b, w)
    /\ pc' = "dotplot_self_buffers"
    /\ UNCHANGED <<seq_a, seq_b, max_d, handle, kmer_k, step_size, num_hashes>>

NextDotplot == NewForDotplot \/ HandleDotplotSelf \/ CallDotplotSelfBuffers

SpecDotplot == InitDotplot /\ [][NextDotplot]_vars

---------------------------------------------------------------------------
(* Properties of the dot plot, checked under SpecDotplot.                  *)

\* The codes of the bytes, 4 for an ambiguous one.
RefCodes(s) == [i \in 1..Len(s) |-> RefCode(s[i])]

\* Number of offsets t < window where the codes at x + t and y + t are equal
\* and not ambiguous (x, y 0-based).
DirectIdentity(codes, x, y, window) ==
    Cardinality({t \in 0..(window - 1) :
                   codes[x + t + 1] # 4 /\ codes[x + t + 1] = codes[y + t + 1]})

\* Number of offsets t where the complement of the code at x + window - 1 - t
\* equals the code at y + t and is not ambiguous.
InvertedIdentity(codes, x, y, window) ==
    Cardinality({t \in 0..(window - 1) :
                   /\ codes[x + window - t] # 4
                   /\ 3 - codes[x + window - t] = codes[y + t + 1]})

\* C17: for a non-empty sequence, bins >= 1 and window in 1..len,
\* SequenceHandle::dotplot_self returns two row-major bins * bins matrices
\* with, for every ordered pair (i, j), mirrored cells included, direct =
\* (positions where the two windows hold the same unambiguous code) / window
\* and inverted = (positions where the complement of window i read backwards
\* equals window j, unambiguous) / window; both are symmetric and every
\* window lies inside the sequence.
C17_DotplotCells ==
    (pc = "dotplot_self" /\ Len(seq_a) >= 1 /\ bins >= 1
       /\ window_size >= 1 /\ window_size <= Len(seq_a))
        => LET start == Starts(Len(seq_a), bins, window_size)
               codes == RefCodes(seq_a)
           IN  /\ result.bins = bins
               /\ result.window = window_size
               /\ Len(result.direct) = bins * bins
               /\ Len(result.inverted) = bins * bins
               /\ \A i \in 0..(bins - 1) :
                    start[i + 1] >= 0 /\ start[i + 1] + window_size <= Len(seq_a)
               /\ \A i \in 0..(bins - 1), j \in 0..(bins - 1) :
                    /\ result.direct[i * bins + j + 1] =
                         <<DirectIdentity(codes, start[i + 1], start[j + 1], window_size),
                           window_size>>
                    /\ result.inverted[i * bins + j + 1] =
                         <<InvertedIdentity(codes, start[i + 1], start[j + 1], window_size),
                           window_size>>
                    /\ result.direct[i * bins + j + 1] = result.direct[j * bins + i + 1]
                    /\ result.inverted[i * bins + j + 1] = result.inverted[j * bins + i + 1]

\* C17 witness: a dot plot of MaxBins bins and window 2 over a sequence of
\* full length with an ambiguous base, whose mirrored inverted cell (1, 0) is
\* not zero and whose last diagonal direct cell is below 1.
C17_Witness ==
    /\ pc = "dotplot_self"
    /\ bins = MaxBins
    /\ window_size = 2
    /\ Len(seq_a) = MaxLen
    /\ HasN(seq_a)
    /\ result.inverted[bins + 1][1] > 0
    /\ result.direct[bins * bins][1] < 2

\* C18: SequenceHandle::new(seq).dotplot_self(bins, window) returns the same
\* bins, window, direct and inverted matrices as
\* dotplot_self_buffers(seq, bins, window), for every byte sequence.
C18_HandleMatchesBuffers ==
    pc = "dotplot_self"
        => LET other == dotplot_self_buffers(seq_a, bins, window_size)
           IN  /\ result.bins = other.bins
               /\ result.window = other.window
               /\ result.direct = other.direct
               /\ result.inverted = other.inverted

\* The bytes A, C, G, T in either case.
PlainBases(s) == \A i \in 1..Len(s) : s[i] \in {65, 67, 71, 84, 97, 99, 103, 116}

\* The two dot plots agree on sequences of A, C, G, T.
HandleMatchesBuffersOnPlainBases ==
    (pc = "dotplot_self" /\ PlainBases(seq_a))
        => result = dotplot_self_buffers(seq_a, bins, window_size)

\* The two dot plots always agree on bins and window.
HandleMatchesBuffersOnShape ==
    pc = "dotplot_self"
        => LET other == dotplot_self_buffers(seq_a, bins, window_size)
           IN  /\ result.bins = other.bins
               /\ result.window = other.window
               /\ Len(result.direct) = Len(other.direct)
               /\ Len(result.inverted) = Len(other.inverted)

\* Every entry of a matrix is zero.
AllZero(matrix) == \A p \in 1..Len(matrix) : matrix[p][1] = 0

\* C20 as stated: a dot plot asked with window = 0 or window > length is
\* empty, or its matrices hold only zeros.
C20_BadWindowGivesEmptyOrZero ==
    (pc \in {"dotplot_self", "dotplot_self_buffers"}
       /\ (window_size = 0 \/ window_size > Len(seq_a)))
        => AllZero(result.direct) /\ AllZero(result.inverted)

\* The window a dot plot uses for a window argument outside 1..len.
EffectiveWindow ==
    IF window_size = 0
    THEN Min(Len(seq_a),
             Max(20, IF Len(seq_a) \div bins = 0 THEN Len(seq_a) ELSE Len(seq_a) \div bins))
    ELSE Len(seq_a)

\* C20 amended: with window = 0 or window > length, a dot plot of an empty
\* sequence or of 0 bins is empty (bins 0, window 0); otherwise the window is
\* replaced (0 by max(20, floor(len / bins) or len), then cut to len) and
\* the result is the dot plot of that window, reported in the window field.
C20_BadWindowIsReplaced ==
    (pc \in {"dotplot_self", "dotplot_self_buffers"}
       /\ (window_size = 0 \/ window_size > Len(seq_a)))
        => IF Len(seq_a) = 0 \/ bins = 0
           THEN result = DotPlotBuffers(<<>>, <<>>, 0, 0)
           ELSE /\ result.window = EffectiveWindow
                /\ result.bins = bins
                /\ result = IF pc = "dotplot_self"
                            THEN dotplot_self(handle, bins, EffectiveWindow)
                            ELSE dotplot_self_buffers(seq_a, bins, EffectiveWindow)
                /\ (~HasN(seq_a)) => result.direct[1] = <<Len(seq_a), Len(seq_a)>>

\* C20 witness: a dot plot with window 0 over a sequence of full length
\* without N: the window is the whole sequence and the diagonal is 1.
C20_Witness ==
    /\ pc = "dotplot_self"
    /\ window_size = 0
    /\ bins = MaxBins
    /\ Len(seq_a) = MaxLen
    /\ ~HasN(seq_a)
    /\ result.window = MaxLen
    /\ result.direct[1] = <<MaxLen, MaxLen>>

---------------------------------------------------------------------------
(* Specification of the parameter domain: the caller holds a byte          *)
(* sequence and a handle and calls the k-mer counts and the GC skew with   *)
(* parameters inside and outside their domain.                             *)

\* Bytes given to the calls: G, C and N.
DomainBytes == {71, 67, 78}

InitDomain ==
    /\ pc = "ready"
    /\ seq_a \in SeqsUpTo(DomainBytes, MaxLen)
    /\ seq_b = <<>>
    /\ max_d = 0
    /\ handle = NoHandle
    /\ kmer_k = 0
    /\ window_size = 0
    /\ step_size = 0
    /\ num_hashes = 0
    /\ bins = 0
    /\ result = NoResult

NextDomain ==
    \/ New
    \/ HandleCountKmers
    \/ CountKmersDense
    \/ CountKmersDenseCanonical
    \/ HandleGcSkew
    \/ ComputeGcSkew

SpecDomain == InitDomain /\ [][NextDomain]_vars

\* No counter of a table is non-zero.
NoCount(counts) == \A i \in 1..Len(counts) : counts[i] = 0

\* C19: count_kmers (handle and bytes, plain and canonical) with k = 0 or
\* k > 10 returns an empty counts array and total_valid 0; with a sequence
\* shorter than k it returns total_valid 0 and no non-zero counter; gc_skew
\* with window = 0, step = 0 or window > length returns an empty array.
C19_OutOfDomainIsEmpty ==
    /\ (pc \in {"count_kmers", "count_kmers_dense", "count_kmers_dense_canonical"}
          /\ (kmer_k = 0 \/ kmer_k > 10))
         => (result.counts = <<>> /\ result.total_valid = 0)
    /\ (pc \in {"count_kmers", "count_kmers_dense", "count_kmers_dense_canonical"}
          /\ Len(seq_a) < kmer_k)
         => (result.total_valid = 0 /\ NoCount(result.counts))
    /\ (pc \in {"gc_skew", "compute_gc_skew"}
          /\ (window_size = 0 \/ step_size = 0 \/ window_size > Len(seq_a)))
         => result = <<>>

\* C19 witness: a GC skew asked of a handle of full length with a window one
\* base longer than the sequence came back empty.
C19_Witness ==
    /\ pc = "gc_skew"
    /\ Len(seq_a) = MaxLen
    /\ window_size = MaxLen + 1
    /\ step_size = 1
    /\ result = <<>>

\* C19 witness of the k-mer case: a dense count with k one above the length.
ShortSequenceCounted ==
    /\ pc = "count_kmers_dense"
    /\ kmer_k = MaxK
    /\ Len(seq_a) = MaxK - 1
    /\ Len(result.counts) = Pow4(MaxK)
    /\ result.total_valid = 0

---------------------------------------------------------------------------
(* Cumulative GC skew.  The running sum moves by +1.0 and -1.0 only: it is *)
(* an integer-valued f64, kept as that integer.                            *)

\* The `for &code in &self.encoded` loop from 0-based position i on.
RECURSIVE CumulativeLoop(_, _, _, _)
CumulativeLoop(encoded, i, sum, cumulative) ==
    IF i >= Len(encoded) THEN cumulative
    ELSE LET next == CASE encoded[i + 1] = SEQ_BASE_G -> sum + 1
                       [] encoded[i + 1] = SEQ_BASE_C -> sum - 1
                       [] OTHER -> sum
         IN  CumulativeLoop(encoded, i + 1, next, Append(cumulative, next))

\* cumulative_gc_skew that restarts the running sum at every base.
CumulativeGcSkewPerBase(h) ==
    [i \in 1..Len(h.encoded) |->
       CASE h.encoded[i] = SEQ_BASE_G -> 1
         [] h.encoded[i] = SEQ_BASE_C -> -1
         [] OTHER -> 0]

\* SequenceHandle::cumulative_gc_skew
cumulative_gc_skew(h) == CumulativeLoop(h.encoded, 0, 0, <<>>)

---------------------------------------------------------------------------
(* A handle shared by independent callers.  Every method of the handle     *)
(* takes `&self`, so several callers can be inside calls on one handle at  *)
(* once.  A call is followed here through its body: one step enters the    *)
(* method (its guard and the locals it sets up) and one step runs one      *)
(* iteration of its outer loop, reading the fields of the handle as they   *)
(* are at that step; the step that finds the loop finished returns.  The   *)
(* steps of different callers interleave freely.  pc[c] is the call caller *)
(* c is making and its place in the body; result[c] holds the locals of    *)
(* the call while it runs and the value returned once it has returned.     *)

\* A call: the method and its two arguments (0 when the method has fewer).
Call(op, a1, a2) == [op |-> op, a1 |-> a1, a2 |-> a2]

NoCall == Call("ready", 0, 0)

\* The place of a caller: its call and a label of the body.
At(call, label) == [call |-> call, at |-> label]

\* What a method returns on handle h when it runs alone.
Returned(h, call) ==
    CASE call.op = "gc_skew" -> gc_skew(h, call.a1, call.a2)
      [] call.op = "cumulative_gc_skew" -> cumulative_gc_skew(h)
      [] call.op = "count_kmers" -> count_kmers(h, call.a1)
      [] call.op = "minhash" -> minhash(h, call.a1, call.a2)
      [] call.op = "dotplot_self" -> dotplot_self(h, call.a1, call.a2)
      [] OTHER -> NoResult

\* The independent callers of one handle.
Callers == {1, 2}

\* Bytes of the shared sequence: G, c and N.
SharedBytes == {71, 99, 78}

\* The calls a caller may make.
GcSkewCalls == {Call("gc_skew", w, 1) : w \in 1..MaxK}
CumulativeCalls == {Call("cumulative_gc_skew", 0, 0)}
CountKmersCalls == {Call("count_kmers", k, 0) : k \in 1..MaxK}
MinhashCalls == {Call("minhash", 1, MaxLen)}
DotplotCalls == {Call("dotplot_self", MaxBins, 1)}

InitShared ==
    /\ pc = [c \in Callers |-> At(NoCall, "ready")]
    /\ seq_a \in SeqsUpTo(SharedBytes, MaxLen)
    /\ seq_b = <<>>
    /\ max_d = 0
    /\ handle = NoHandle
    /\ kmer_k = 0
    /\ window_size = 0
    /\ step_size = 0
    /\ num_hashes = 0
    /\ bins = 0
    /\ result = [c \in Callers |-> NoResult]

NewShared ==
    /\ handle = NoHandle
    /\ handle' = SequenceHandleNew(seq_a)
    /\ UNCHANGED <<pc, seq_a, seq_b, max_d, kmer_k, window_size, step_size,
                 num_hashes, bins, result>>

\* Caller c is free to make a call on the handle.
Enters(c) == handle # NoHandle /\ pc[c].at \in {"ready", "returned"}

\* Caller c is at the label of a call of the method.
Inside(c, op, label) == pc[c].call.op = op /\ pc[c].at = label

\* Caller c moves to the label with the locals (the value returned, at
\* "returned"); nothing of the caller's own changes but its place and locals.
Goes(c, call, label, locals) ==
    /\ pc' = [pc EXCEPT ![c] = At(call, label)]
    /\ result' = [result EXCEPT ![c] = locals]
    /\ UNCHANGED <<seq_a, seq_b, max_d, kmer_k, window_size, step_size,
                 num_hashes, bins>>

\* gc_skew, to the first window: the guard, the counts of the initial window
\* and its skew.
GcSkewEnter ==
    \E c \in Callers, call \in GcSkewCalls :
      /\ Enters(c)
      /\ IF call.a1 = 0 \/ call.a2 = 0 \/ handle.length < call.a1
         THEN Goes(c, call, "returned", <<>>)
         ELSE LET first == AddEntering(handle, 0, call.a1, <<0, 0>>)
              IN  Goes(c, call, "slide",
                       [pos |-> call.a2, cnt |-> first,
                        out |-> <<Skew(first[1], first[2])>>])
      /\ UNCHANGED handle

\* gc_skew, one test of `while pos + window_size <= self.length` and the
\* iteration that follows it.
GcSkewSlide ==
    \E c \in Callers :
      /\ Inside(c, "gc_skew", "slide")
      /\ LET window == pc[c].call.a1
             step == pc[c].call.a2
             l == result[c]
         IN  IF l.pos + window > handle.length
             THEN Goes(c, pc[c].call, "returned", l.out)
             ELSE LET removed == RemoveExiting(handle, l.pos - step, l.pos, l.cnt)
                      added == AddEntering(handle, l.pos + window - step,
                                           l.pos + window, removed)
                  IN  Goes(c, pc[c].call, "slide",
                           [pos |-> l.pos + step, cnt |-> added,
                            out |-> Append(l.out, Skew(added[1], added[2]))])
      /\ UNCHANGED handle

\* cumulative_gc_skew, to its loop (i: the codes consumed so far).
CumulativeEnter ==
    \E c \in Callers, call \in CumulativeCalls :
      /\ Enters(c)
      /\ Goes(c, call, "loop", [i |-> 0, sum |-> 0, cumulative |-> <<>>])
      /\ UNCHANGED handle

\* cumulative_gc_skew, one iteration of `for &code in &self.encoded`.
CumulativePush ==
    \E c \in Callers :
      /\ Inside(c, "cumulative_gc_skew", "loop")
      /\ LET l == result[c]
         IN  IF l.i >= Len(handle.encoded)
             THEN Goes(c, pc[c].call, "returned", l.cumulative)
             ELSE LET code == handle.encoded[l.i + 1]
                      sum == CASE code = SEQ_BASE_G -> l.sum + 1
                               [] code = SEQ_BASE_C -> l.sum - 1
                               [] OTHER -> l.sum
                  IN  Goes(c, pc[c].call, "loop",
                           [i |-> l.i + 1, sum |-> sum,
                            cumulative |-> Append(l.cumulative, sum)])
      /\ UNCHANGED handle

\* count_kmers, to its loop: the guard and the zeroed table.
CountKmersEnter ==
    \E c \in Callers, call \in CountKmersCalls :
      /\ Enters(c)
      /\ IF call.a1 < 1 \/ call.a1 > DENSE_KMER_MAX_K \/ handle.length < call.a1
         THEN Goes(c, call, "returned", DenseKmerResult(<<>>, 0, call.a1))
         ELSE Goes(c, call, "loop", [i |-> 0, st |-> KmerStart(call.a1)])
      /\ UNCHANGED handle

\* count_kmers, one iteration of `for &code in &self.encoded`.
CountKmersCode ==
    \E c \in Callers :
      /\ Inside(c, "count_kmers", "loop")
      /\ LET k == pc[c].call.a1
             l == result[c]
         IN  IF l.i >= Len(handle.encoded)
             THEN Goes(c, pc[c].call, "returned",
                       DenseKmerResult(l.st.counts, l.st.total_valid, k))
             ELSE Goes(c, pc[c].call, "loop",
                       [i |-> l.i + 1,
                        st |-> KmerStep(l.st, handle.encoded[l.i + 1], k)])
      /\ UNCHANGED handle

\* minhash, to the loop that copies the codes: the guard and the empty
\* buffer `ascii`.
MinhashEnter ==
    \E c \in Callers, call \in MinhashCalls :
      /\ Enters(c)
      /\ IF call.a2 < 1 \/ call.a2 > 31 \/ handle.length < call.a2 \/ call.a1 = 0
         THEN Goes(c, call, "returned",
                   MinHashSignature(Repeat(U32_MAX, call.a1), 0, call.a2))
         ELSE Goes(c, call, "copy", [ascii |-> <<>>])
      /\ UNCHANGED handle

\* The copying step that writes the ASCII byte over the code in the handle
\* as well.
MinhashPushInPlace ==
    \E c \in Callers :
      /\ Inside(c, "minhash", "copy")
      /\ Len(result[c].ascii) < Len(handle.encoded)
      /\ LET i == Len(result[c].ascii) + 1
             byte == Ascii(<<handle.encoded[i]>>)[1]
         IN  /\ Goes(c, pc[c].call, "copy",
                     [ascii |-> Append(result[c].ascii, byte)])
             /\ handle' = [handle EXCEPT !.encoded[i] = byte]

\* minhash, one iteration of `for &code in &self.encoded { ascii.push(..) }`.
MinhashPush ==
    \E c \in Callers :
      /\ Inside(c, "minhash", "copy")
      /\ Len(result[c].ascii) < Len(handle.encoded)
      /\ LET i == Len(result[c].ascii) + 1
             byte == Ascii(<<handle.encoded[i]>>)[1]
         IN  Goes(c, pc[c].call, "copy",
                  [ascii |-> Append(result[c].ascii, byte)])
      /\ UNCHANGED handle

\* minhash, after the copy: minhash_signature_canonical on the caller's own
\* buffer, which no other caller can reach.
MinhashCanonical ==
    \E c \in Callers :
      /\ Inside(c, "minhash", "copy")
      /\ Len(result[c].ascii) >= Len(handle.encoded)
      /\ \E signature \in {minhash_signature_canonical(result[c].ascii,
                                                       pc[c].call.a2,
                                                       pc[c].call.a1)} :
           Goes(c, pc[c].call, "returned", signature)
      /\ UNCHANGED handle

\* dotplot_self, to its loops: the guard, the window, starts[] and the two
\* zeroed matrices (0.0 is 0 / window).
DotplotEnter ==
    \E c \in Callers, call \in DotplotCalls :
      /\ Enters(c)
      /\ IF handle.length = 0 \/ call.a1 = 0
         THEN Goes(c, call, "returned", DotPlotBuffers(<<>>, <<>>, 0, 0))
         ELSE LET window == DotplotWindow(handle.length, call.a1, call.a2)
              IN  Goes(c, call, "cells",
                       [window |-> window,
                        starts |-> Starts(handle.length, call.a1, window),
                        direct |-> Repeat(<<0, window>>, call.a1 * call.a1),
                        inverted |-> Repeat(<<0, window>>, call.a1 * call.a1),
                        i |-> 0, j |-> 0])
      /\ UNCHANGED handle

\* dotplot_self, one iteration of `for j in i..bins` (the windows at
\* starts[i] and starts[j] compared and written at idx1 and idx2), with the
\* move of i when the row is finished.
DotplotCell ==
    \E c \in Callers :
      /\ Inside(c, "dotplot_self", "cells")
      /\ LET n == pc[c].call.a1
             l == result[c]
         IN  IF l.i >= n
             THEN Goes(c, pc[c].call, "returned",
                       DotPlotBuffers(l.direct, l.inverted, n, l.window))
             ELSE LET a0 == l.starts[l.i + 1]
                      b0 == l.starts[l.j + 1]
                      dir_val == <<HandleSameDir(handle.encoded, a0, b0, l.window),
                                   l.window>>
                      inv_val == <<HandleSameInv(handle.encoded, a0, b0, l.window),
                                   l.window>>
                      idx1 == l.i * n + l.j
                      idx2 == l.j * n + l.i
                      row_done == l.j + 1 >= n
                  IN  Goes(c, pc[c].call, "cells",
                           [l EXCEPT !.direct[idx1 + 1] = dir_val,
                                     !.direct[idx2 + 1] = dir_val,
                                     !.inverted[idx1 + 1] = inv_val,
                                     !.inverted[idx2 + 1] = inv_val,
                                     !.i = IF row_done THEN l.i + 1 ELSE l.i,
                                     !.j = IF row_done THEN l.i + 1 ELSE l.j + 1])
      /\ UNCHANGED handle

NextShared ==
    \/ NewShared
    \/ GcSkewEnter
    \/ GcSkewSlide
    \/ CumulativeEnter
    \/ CumulativePush
    \/ CountKmersEnter
    \/ CountKmersCode
    \/ MinhashEnter
    \/ MinhashPush
    \/ MinhashCanonical
    \/ DotplotEnter
    \/ DotplotCell

SpecShared == InitShared /\ [][NextShared]_vars

\* C21: a SequenceHandle is immutable after construction: at every point of
\* any interleaving of gc_skew, cumulative_gc_skew, count_kmers, minhash and
\* dotplot_self calls by independent callers its codes, length and
\* valid_count are those the bytes give, and every call that has returned
\* has returned what the same call returns when made alone on a fresh handle
\* of the same bytes.
C21_HandleIsImmutable ==
    handle # NoHandle =>
        /\ handle.encoded = RefCodes(seq_a)
        /\ handle.length = Len(seq_a)
        /\ handle.valid_count = Cardinality({i \in 1..Len(seq_a) : RefCode(seq_a[i]) # 4})
        /\ \A c \in Callers :
             pc[c].at = "returned"
                => result[c] = Returned(SequenceHandleNew(seq_a), pc[c].call)

\* C21 witness: on a sequence of G and C bases, caller 1 is inside a minhash
\* call with its copy of the codes complete, caller 2 is inside a gc_skew
\* call that has pushed a non-zero skew and still has a window to slide to.
C21_Witness ==
    /\ handle # NoHandle
    /\ handle.valid_count = MaxLen
    /\ Inside(1, "minhash", "copy")
    /\ Len(result[1].ascii) = MaxLen
    /\ Inside(2, "gc_skew", "slide")
    /\ result[2].pos + pc[2].call.a1 <= handle.length
    /\ \E i \in 1..Len(result[2].out) : result[2].out[i][1] # 0

---------------------------------------------------------------------------
(* Specification of the encoding: the caller holds a byte sequence and     *)
(* constructs a handle from it.                                            *)

\* Bytes of the longer sequences encoded: a, G, U and N.
EncodeBytes == {97, 71, 85, 78}

\* Every single byte, and the sequences over EncodeBytes.
InitEncode ==
    /\ pc = "ready"
    /\ seq_a \in {<<b>> : b \in 0..255} \cup SeqsUpTo(EncodeBytes, MaxLen)
    /\ seq_b = <<>>
    /\ max_d = 0
    /\ handle = NoHandle
    /\ kmer_k = 0
    /\ window_size = 0
    /\ step_size = 0
    /\ num_hashes = 0
    /\ bins = 0
    /\ result = NoResult

NextEncode == New

SpecEncode == InitEncode /\ [][NextEncode]_vars

\* The bytes that are A, C, G, T or U in either case.
ValidBytes == {65, 97, 67, 99, 71, 103, 84, 116, 85, 117}

\* C22: SequenceHandle::new(bytes) has length = number of input bytes,
\* encoded[i] = the code of bytes[i] (A/a = 0, C/c = 1, G/g = 2, T/t/U/u = 3,
\* any other byte = 4) and valid_count = the number of bytes that are A, C, G,
\* T or U in either case; the empty input gives a zero-length handle.
C22_NewEncodesEveryByte ==
    handle # NoHandle =>
        /\ handle.length = Len(seq_a)
        /\ Len(handle.encoded) = Len(seq_a)
        /\ \A i \in 1..Len(seq_a) :
             /\ seq_a[i] \in {65, 97} <=> handle.encoded[i] = 0
             /\ seq_a[i] \in {67, 99} <=> handle.encoded[i] = 1
             /\ seq_a[i] \in {71, 103} <=> handle.encoded[i] = 2
             /\ seq_a[i] \in {84, 116, 85, 117} <=> handle.encoded[i] = 3
             /\ seq_a[i] \notin ValidBytes <=> handle.encoded[i] = 4
        /\ handle.valid_count = Cardinality({i \in 1..Len(seq_a) : seq_a[i] \in ValidBytes})
        /\ (seq_a = <<>> => handle.length = 0 /\ handle.encoded = <<>>)

\* C22 witness: a handle of three bytes, a lower-case base, a U and an N.
C22_Witness ==
    /\ handle # NoHandle
    /\ seq_a = <<97, 85, 78>>
    /\ handle.encoded = <<0, 3, 4>>
    /\ handle.valid_count = 2

\* The empty input has been encoded.
EmptyInputEncoded == handle # NoHandle /\ seq_a = <<>> /\ handle.valid_count = 0

---------------------------------------------------------------------------
(* Specification of the cumulative GC skew: the caller encodes a sequence  *)
(* and asks the handle for the cumulative skew.                            *)

\* Bytes given to the cumulative skew: G, c, A and N.
CumulativeBytes == {71, 99, 65, 78}

InitCumulative ==
    /\ pc = "ready"
    /\ seq_a \in SeqsUpTo(CumulativeBytes, MaxLen + 1)
    /\ seq_b = <<>>
    /\ max_d = 0
    /\ handle = NoHandle
    /\ kmer_k = 0
    /\ window_size = 0
    /\ step_size = 0
    /\ num_hashes = 0
    /\ bins = 0
    /\ result = NoResult

HandleCumulativeGcSkew ==
    /\ handle # NoHandle
    /\ result' = cumulative_gc_skew(handle)
    /\ pc' = "cumulative_gc_skew"
    /\ UNCHANGED <<seq_a, seq_b, max_d, handle, kmer_k, window_size, step_size,
                 num_hashes, bins>>

NextCumulative == New \/ HandleCumulativeGcSkew

SpecCumulative == InitCumulative /\ [][NextCumulative]_vars

\* Number of positions 1..i of s whose byte is in S.
CountIn(s, i, S) == Cardinality({j \in 1..i : s[j] \in S})

\* C23: cumulative_gc_skew returns exactly one value per base; the value at
\* position i is (number of G) - (number of C) among the bases at positions
\* 0..i inclusive, and a base other than G and C leaves the running value
\* unchanged.
C23_CumulativeSkewIsRunningDifference ==
    pc = "cumulative_gc_skew" =>
        /\ Len(result) = Len(seq_a)
        /\ \A i \in 1..Len(seq_a) :
             /\ result[i] = CountIn(seq_a, i, {71, 103}) - CountIn(seq_a, i, {67, 99})
             /\ seq_a[i] \notin {71, 103, 67, 99}
                  => result[i] = (IF i = 1 THEN 0 ELSE result[i - 1])

\* C23 witness: the running value has climbed to 2, come down by a C and
\* stayed there over a base that is neither G nor C.
C23_Witness ==
    /\ pc = "cumulative_gc_skew"
    /\ seq_a = <<71, 71, 99, 78>>
    /\ result = <<1, 2, 1, 1>>

---------------------------------------------------------------------------
(* Properties of dotplot_self_buffers under replacements of single bytes,  *)
(* checked under SpecDotplot.                                              *)

\* The other letter case of a letter; any other byte is itself.
SwapCase(b) ==
    IF b >= 65 /\ b <= 90 THEN b + 32
    ELSE IF b >= 97 /\ b <= 122 THEN b - 32
    ELSE b

\* U read as T, u as t.
UAsT(b) == IF b = 85 THEN 84 ELSE IF b = 117 THEN 116 ELSE b

\* The dot plot of the bytes is the one held in result.
SameMatrices(s) ==
    LET other == dotplot_self_buffers(s, bins, window_size)
    IN  other.direct = result.direct /\ other.inverted = result.inverted

\* C24: dotplot_self_buffers is case-insensitive and treats U as T: its direct
\* and inverted matrices are unchanged when any base is replaced by its other
\* letter case or when any U/u is replaced by T/t.
C24_BuffersIgnoreCaseAndU ==
    pc = "dotplot_self_buffers" =>
        \A i \in 1..Len(seq_a) :
            /\ SameMatrices([seq_a EXCEPT ![i] = SwapCase(seq_a[i])])
            /\ SameMatrices([seq_a EXCEPT ![i] = UAsT(seq_a[i])])

\* The part of C24 about letter case alone.
BuffersIgnoreCase ==
    pc = "dotplot_self_buffers" =>
        \A i \in 1..Len(seq_a) :
            SameMatrices([seq_a EXCEPT ![i] = SwapCase(seq_a[i])])

\* The dot plot of "tU" with two bins and window 1: the cell of t against U.
UAgainstTCompared ==
    /\ pc = "dotplot_self_buffers"
    /\ seq_a = <<116, 85>>
    /\ bins = 2
    /\ window_size = 1
    /\ result.direct[2] = <<0, 1>>

---------------------------------------------------------------------------
(* Properties of the masks and counts of a diff, checked under Spec.       *)

\* Number of entries of a mask that carry the tag.
TagCount(mask, tag) == Cardinality({i \in 1..Len(mask) : mask[i] = tag})

\* The tags that occur in a mask.
Tags(mask) == {mask[i] : i \in 1..Len(mask)}

\* C25: in every non-truncated result of myers_diff_with_limit the masks have
\* the lengths of A and B, mask_a holds only Match/Delete and mask_b only
\* Match/Insert, deletions and insertions are the numbers of Delete and Insert
\* tags, matches is the number of Match tags of either mask, mismatches = 0,
\* matches + deletions = len(A), matches + insertions = len(B) and
\* edit_distance = insertions + deletions.
C25_MasksAndCountsAgree ==
    (DiffDone /\ ~result.truncated) =>
        /\ ~result.panicked
        /\ Len(result.mask_a) = Len(seq_a)
        /\ Len(result.mask_b) = Len(seq_b)
        /\ Tags(result.mask_a) \subseteq {DIFF_OP_MATCH, DIFF_OP_DELETE}
        /\ Tags(result.mask_b) \subseteq {DIFF_OP_MATCH, DIFF_OP_INSERT}
        /\ result.deletions = TagCount(result.mask_a, DIFF_OP_DELETE)
        /\ result.insertions = TagCount(result.mask_b, DIFF_OP_INSERT)
        /\ result.matches = TagCount(result.mask_a, DIFF_OP_MATCH)
        /\ result.matches = TagCount(result.mask_b, DIFF_OP_MATCH)
        /\ result.mismatches = 0
        /\ result.matches + result.deletions = Len(seq_a)
        /\ result.matches + result.insertions = Len(seq_b)
        /\ result.edit_distance = result.insertions + result.deletions

\* C25 witness: the search returned masks of different lengths, mask_a with
\* Match and Delete tags in it and mask_b with Match and Insert tags.
C25_Witness ==
    /\ DiffDone
    /\ result.core
    /\ ~result.truncated
    /\ Len(result.mask_a) > Len(result.mask_b)
    /\ Tags(result.mask_a) = {DIFF_OP_MATCH, DIFF_OP_DELETE}
    /\ Tags(result.mask_b) = {DIFF_OP_MATCH, DIFF_OP_INSERT}

---------------------------------------------------------------------------
(* myers_diff_with_limit step by step: one step per iteration of the       *)
(* search's inner `for k` loop, one per iteration of the traceback's       *)
(* `while x > 0 || y > 0` loop, one for the construction of the masks.     *)
(* The snake loops inside an iteration are bounded by the lengths and are  *)
(* part of the step.  While the call runs, result holds its locals.        *)

\* `max_d.min(max_steps)`
SearchLimit(max_d_arg, max_steps) == Min(max_d_arg, max_steps)

\* `vec![-1; v_size]` with `v[offset] = 0`
InitialV(maxd) == [i \in 1..(2 * maxd + 1) |-> IF i = maxd + 1 THEN 0 ELSE -1]

\* The locals of myers_diff_core.
Locals(maxd, d, k, v, history, x, y, edits) ==
    [maxd |-> maxd, d |-> d, k |-> k, v |-> v, history |-> history,
     final_d |-> d, x |-> x, y |-> y, edits |-> edits]

\* The return of the `None` arm: the budget was exceeded.
BudgetExceeded(maxd) ==
    [DiffResult(<<>>, <<>>, 0, 0, 0, 0, 0, TRUE,
                Some("Edit distance exceeds limit: max_d=", <<maxd>>), <<>>)
       EXCEPT !.core = TRUE]

\* NextDiagonal that starts the same depth again when its diagonals are done.
NextDiagonalSameDepth(d, k) ==
    IF k + 2 > d THEN [d |-> d, k |-> -d] ELSE [d |-> d, k |-> k + 2]

\* The (d, k) of the iteration after (d, k) in
\* `for d in 0..=max_d { for k in (-d..=d).step_by(2) {..} }`.
NextDiagonal(d, k) ==
    IF k + 2 > d THEN [d |-> d + 1, k |-> -(d + 1)] ELSE [d |-> d, k |-> k + 2]

\* TracebackIteration with the two neighbouring diagonals exchanged: the
\* deletion read from k + 1, the insertion from k - 1.
TracebackIterationSwapsNeighbours(loc) ==
    LET x == loc.x
        y == loc.y
        d == loc.d
        offset == loc.maxd
        k == x - y
        v_prev == loc.history[d + 1]
        k_prev_del == k + 1
        k_prev_ins == k - 1
        from_del == IF ULt(k_prev_del + offset, Len(v_prev))
                    THEN v_prev[(k_prev_del + offset) + 1] ELSE -2
        from_ins == IF ULt(k_prev_ins + offset, Len(v_prev))
                    THEN v_prev[(k_prev_ins + offset) + 1] ELSE -2
        is_deletion == IsDeletion(k, d, from_del, from_ins)
        snake_start_x == IF is_deletion THEN from_del + 1 ELSE from_ins
        snake_start_y == snake_start_x - k
        run == MatchRun(x, y, snake_start_x, snake_start_y, loc.edits)
        moved == IF is_deletion THEN run.x > 0 ELSE run.y > 0
    IN  [x |-> IF is_deletion /\ moved THEN run.x - 1 ELSE run.x,
         y |-> IF ~is_deletion /\ moved THEN run.y - 1 ELSE run.y,
         edits |-> IF ~moved THEN run.edits
                   ELSE IF is_deletion
                   THEN Append(run.edits, <<DIFF_OP_DELETE, run.x - 1, run.y>>)
                   ELSE Append(run.edits, <<DIFF_OP_INSERT, run.x, run.y - 1>>),
         from_del |-> from_del, from_ins |-> from_ins, is_deletion |-> is_deletion,
         snake_start_x |-> snake_start_x, snake_start_y |-> snake_start_y,
         emitted |-> IF moved THEN 1 ELSE 0]

\* One iteration of the traceback loop with d > 0, from the locals loc: the
\* values it computes and the position and edits it leaves.
TracebackIteration(loc) ==
    LET x == loc.x
        y == loc.y
        d == loc.d
        offset == loc.maxd
        k == x - y
        v_prev == loc.history[d + 1]
        k_prev_del == k - 1
        k_prev_ins == k + 1
        from_del == IF ULt(k_prev_del + offset, Len(v_prev))
                    THEN v_prev[(k_prev_del + offset) + 1] ELSE -2
        from_ins == IF ULt(k_prev_ins + offset, Len(v_prev))
                    THEN v_prev[(k_prev_ins + offset) + 1] ELSE -2
        is_deletion == IsDeletion(k, d, from_del, from_ins)
        snake_start_x == IF is_deletion THEN from_del + 1 ELSE from_ins
        snake_start_y == snake_start_x - k
        run == MatchRun(x, y, snake_start_x, snake_start_y, loc.edits)
        moved == IF is_deletion THEN run.x > 0 ELSE run.y > 0
    IN  [x |-> IF is_deletion /\ moved THEN run.x - 1 ELSE run.x,
         y |-> IF ~is_deletion /\ moved THEN run.y - 1 ELSE run.y,
         edits |-> IF ~moved THEN run.edits
                   ELSE IF is_deletion
                   THEN Append(run.edits, <<DIFF_OP_DELETE, run.x - 1, run.y>>)
                   ELSE Append(run.edits, <<DIFF_OP_INSERT, run.x, run.y - 1>>),
         from_del |-> from_del, from_ins |-> from_ins, is_deletion |-> is_deletion,
         snake_start_x |-> snake_start_x, snake_start_y |-> snake_start_y,
         emitted |-> IF moved THEN 1 ELSE 0]

\* Bytes of the sequences of the step-by-step runs: A, C and N.
StepBytes == {65, 67, 78}

\* Budgets of the step-by-step runs: a small one and the default.
StepBudgets == {MaxBudget, DIFF_MAX_EDIT_DISTANCE}

\* The two sequences have MaxLen + 1 bytes together at most.
InitSteps ==
    /\ pc = "ready"
    /\ seq_a \in SeqsUpTo(StepBytes, MaxLen)
    /\ seq_b \in SeqsUpTo(StepBytes, MaxLen)
    /\ Len(seq_a) + Len(seq_b) <= MaxLen + 1
    /\ max_d \in StepBudgets
    /\ handle = NoHandle
    /\ kmer_k = 0
    /\ window_size = 0
    /\ step_size = 0
    /\ num_hashes = 0
    /\ bins = 0
    /\ result = NoResult

\* The call is made: the length guard and the fast paths return at once,
\* every other pair of inputs enters the search at d = 0, k = 0.
EnterDiff ==
    /\ pc = "ready"
    /\ LET n == Len(seq_a)
           m == Len(seq_b)
           maxd == SearchLimit(max_d, n + m)
       IN  IF \/ n > DIFF_MAX_LEN \/ m > DIFF_MAX_LEN
              \/ n = 0 \/ m = 0
              \/ (n = m /\ AllMatch(seq_a, seq_b))
           THEN /\ result' = myers_diff_with_limit(seq_a, seq_b, max_d)
                /\ pc' = "done"
           ELSE /\ result' = Locals(maxd, 0, 0, InitialV(maxd), <<InitialV(maxd)>>,
                                    0, 0, <<>>)
                /\ pc' = "forward"
    /\ UNCHANGED <<seq_a, seq_b, max_d, handle, kmer_k, window_size, step_size,
                 num_hashes, bins>>

\* One iteration of the inner loop of the forward pass, at (d, k).
ForwardStep ==
    /\ pc = "forward"
    /\ LET loc == result
           d == loc.d
           k == loc.k
           offset == loc.maxd
           idx == k + offset
       IN  IF ~(StartReadsOk(loc.v, d, k, offset) /\ InBounds(loc.v, idx))
           THEN result' = Panicked /\ pc' = "done"
           ELSE
             LET x == Snake(seq_a, seq_b, StartX(loc.v, d, k, offset),
                            StartX(loc.v, d, k, offset) - k)
                 y == x - k
                 v1 == [loc.v EXCEPT ![idx + 1] = x]
                 nxt == NextDiagonal(d, k)
             IN  IF x >= Len(seq_a) /\ y >= Len(seq_b)
                 THEN /\ result' = Locals(loc.maxd, d, k, v1, Append(loc.history, v1),
                                          Len(seq_a), Len(seq_b), <<>>)
                      /\ pc' = "traceback"
                 ELSE IF nxt.d > loc.maxd
                 THEN result' = BudgetExceeded(loc.maxd) /\ pc' = "done"
                 ELSE /\ result' = Locals(loc.maxd, nxt.d, nxt.k, v1,
                                          IF nxt.d # d THEN Append(loc.history, v1)
                                          ELSE loc.history,
                                          0, 0, <<>>)
                      /\ pc' = "forward"
    /\ UNCHANGED <<seq_a, seq_b, max_d, handle, kmer_k, window_size, step_size,
                 num_hashes, bins>>

\* One iteration of the traceback loop; the loop is left by its `break` at
\* d = 0 or by its condition.
TracebackStep ==
    /\ pc = "traceback"
    /\ result.x > 0 \/ result.y > 0
    /\ IF result.d = 0
       THEN LET run == MatchRun(result.x, result.y, 0, 0, result.edits)
            IN  /\ result' = [result EXCEPT !.x = run.x, !.y = run.y,
                                            !.edits = run.edits]
                /\ pc' = "build"
       ELSE IF ~InBounds(result.history, result.d)
       THEN result' = Panicked /\ pc' = "done"
       ELSE LET it == TracebackIteration(result)
            IN  /\ result' = [result EXCEPT !.x = it.x, !.y = it.y,
                                            !.d = @ - 1, !.edits = it.edits]
                /\ pc' = IF it.x > 0 \/ it.y > 0 THEN "traceback" ELSE "build"
    /\ UNCHANGED <<seq_a, seq_b, max_d, handle, kmer_k, window_size, step_size,
                 num_hashes, bins>>

\* `edits.reverse()`, the masks and the counts, and the return.
BuildMasks ==
    /\ pc = "build"
    /\ LET edits == Reverse(result.edits)
           built == ApplyEdits(edits, 1,
                      [mask_a |-> Repeat(DIFF_OP_MATCH, Len(seq_a)),
                       mask_b |-> Repeat(DIFF_OP_MATCH, Len(seq_b)),
                       matches |-> 0, insertions |-> 0, deletions |-> 0])
       IN  result' = [DiffResult(built.mask_a, built.mask_b, result.final_d,
                                 built.matches, 0, built.insertions, built.deletions,
                                 FALSE, None, edits)
                        EXCEPT !.core = TRUE]
    /\ pc' = "done"
    /\ UNCHANGED <<seq_a, seq_b, max_d, handle, kmer_k, window_size, step_size,
                 num_hashes, bins>>

NextSteps == EnterDiff \/ ForwardStep \/ TracebackStep \/ BuildMasks

SpecSteps == InitSteps /\ [][NextSteps]_vars

\* A call that has started keeps running: nothing suspends or cancels it.
SpecStepsFair == SpecSteps /\ WF_vars(NextSteps)

\* The step-by-step run returns what myers_diff_with_limit returns.
StepsReturnTheDiff ==
    pc = "done" => result = myers_diff_with_limit(seq_a, seq_b, max_d)

\* C26: for all A and B within the length ceiling myers_diff_with_limit
\* terminates; whenever max_distance >= len(A) + len(B) it terminates with
\* truncated = false, and the traceback loop ends at position (0, 0).
C26_DiffTerminates ==
    /\ <>(pc = "done")
    /\ [](pc = "build" => result.x = 0 /\ result.y = 0)
    /\ []((pc = "done" /\ max_d >= Len(seq_a) + Len(seq_b))
            => ~result.truncated /\ ~result.panicked)

\* C26 witness: a call whose search went to depth len(A) + len(B), the
\* largest there is, has returned with four edits.
C26_Witness ==
    /\ pc = "done"
    /\ result.core
    /\ Len(seq_a) = 2
    /\ Len(seq_b) = 2
    /\ ~result.truncated
    /\ result.edit_distance = 4

---------------------------------------------------------------------------
(* Symmetry of the diff, checked under Spec.                               *)

\* C27: diff(A, B) and diff(B, A) have the same truncated flag, the same
\* edit_distance and the same matches, with insertions and deletions
\* exchanged, for all A, B and max_distance.
C27_DiffIsSymmetric ==
    DiffDone =>
        LET swapped == myers_diff_with_limit(seq_b, seq_a, max_d)
        IN  /\ ~result.panicked
            /\ ~swapped.panicked
            /\ swapped.truncated = result.truncated
            /\ swapped.edit_distance = result.edit_distance
            /\ swapped.matches = result.matches
            /\ swapped.insertions = result.deletions
            /\ swapped.deletions = result.insertions

\* C27 witness: a search result with one match, two insertions and one
\* deletion.
C27_Witness ==
    /\ DiffDone
    /\ result.core
    /\ ~result.truncated
    /\ result.matches = 1
    /\ result.insertions = 2
    /\ result.deletions = 1

\* A diff with A empty and B not has been made.
EmptyAgainstBases ==
    DiffDone /\ seq_a = <<>> /\ Len(seq_b) = 2 /\ result.insertions = 2

---------------------------------------------------------------------------
(* The handle's MinHash against the byte function, checked under           *)
(* SpecMinhash.                                                            *)

\* C28: for every byte sequence, every seed_count and every k >= 0,
\* SequenceHandle::new(bytes).minhash(seed_count, k) returns the same
\* signature, total_kmers and k as minhash_signature_canonical(bytes, k,
\* seed_count), including at k = 32 and for k > 32.
C28_HandleMinhashMatchesFunction ==
    pc = "minhash" =>
        LET direct == minhash_signature_canonical(seq_a, kmer_k, num_hashes)
        IN  /\ result.signature = direct.signature
            /\ result.total_kmers = direct.total_kmers
            /\ result.k = direct.k

\* The same for the k's the handle accepts, 1 to 31, and for k = 0.
HandleMinhashMatchesFunctionUpTo31 ==
    (pc = "minhash" /\ kmer_k <= 31) =>
        result = minhash_signature_canonical(seq_a, kmer_k, num_hashes)

\* The handle has been asked for a signature with k = 33.
HandleMinhashAsked33 ==
    pc = "minhash" /\ kmer_k = 33 /\ seq_a = <<67>> /\ num_hashes = 1 /\ result.k = 33

\* The handle has hashed the k-mers of a sequence with a U in it.
HandleMinhashHashed ==
    /\ pc = "minhash"
    /\ kmer_k = MaxK
    /\ 85 \in {seq_a[i] : i \in 1..Len(seq_a)}
    /\ result.total_kmers > 1

---------------------------------------------------------------------------
(* detect_tandem_repeats, step by step: one step per test of a `for` range *)
(* and per test and per body of the `while pos + unit_len <= n` loop.      *)
(* While the call runs, result holds its arguments and locals; the json of *)
(* the RepeatResult is kept as the sequence of the repeats it lists.       *)
(*                                                                         *)
(* `copies` is a usize the loop only adds to.  For a unit of one base or   *)
(* more it is at most n; every value from CopiesCap on is kept as          *)
(* CopiesCap, which stands for "CopiesCap or more".  From there the next   *)
(* `copies += 1` either gives a larger value again or, when the value was  *)
(* usize::MAX, overflows: a build with overflow checks panics, a build     *)
(* without them wraps and goes on.                                         *)

\* The cap of the copies counter: above the copies of any unit of one base.
CopiesCap == MaxLen + 2

\* `min_unit..=max_unit.min(n - start)` holds unit_len.
InUnitRange(loc, n) == loc.unit_len <= Min(loc.max_unit, n - loc.start)

\* `candidate.eq_ignore_ascii_case(unit)` for the candidate at pos and the
\* unit at start, both of unit_len bytes.
CandidateEqualsUnit(bytes, loc) ==
    \A t \in 1..loc.unit_len :
        to_ascii_uppercase(bytes[loc.pos + t]) = to_ascii_uppercase(bytes[loc.start + t])

\* The `while` loop goes on: its condition holds and the `if` inside does not
\* `break`.
WhileCondition(bytes, loc) ==
    loc.pos + loc.unit_len <= Len(bytes) /\ CandidateEqualsUnit(bytes, loc)

\* A continuation byte of UTF-8, and the byte at i or -1 past the end.
Continuation(b) == b >= 128 /\ b <= 191

ByteAt(bytes, i) == IF i <= Len(bytes) THEN bytes[i] ELSE -1

\* The length of the well-formed UTF-8 character that starts at i, 0 when
\* none does: no overlong form, no surrogate, nothing above U+10FFFF.
Utf8CharLen(bytes, i) ==
    LET b0 == bytes[i]
        b1 == ByteAt(bytes, i + 1)
        b2 == ByteAt(bytes, i + 2)
        b3 == ByteAt(bytes, i + 3)
        tail2 == Continuation(b1) /\ Continuation(b2)
        tail3 == tail2 /\ Continuation(b3)
    IN  IF b0 <= 127 THEN 1
        ELSE IF b0 >= 194 /\ b0 <= 223 THEN (IF Continuation(b1) THEN 2 ELSE 0)
        ELSE IF b0 = 224 THEN (IF b1 >= 160 /\ tail2 THEN 3 ELSE 0)
        ELSE IF b0 = 237 THEN (IF b1 <= 159 /\ tail2 THEN 3 ELSE 0)
        ELSE IF b0 >= 225 /\ b0 <= 239 THEN (IF tail2 THEN 3 ELSE 0)
        ELSE IF b0 = 240 THEN (IF b1 >= 144 /\ tail3 THEN 4 ELSE 0)
        ELSE IF b0 >= 241 /\ b0 <= 243 THEN (IF tail3 THEN 4 ELSE 0)
        ELSE IF b0 = 244 THEN (IF b1 <= 143 /\ tail3 THEN 4 ELSE 0)
        ELSE 0

\* std::str::from_utf8(bytes).is_ok(), from byte i on.
RECURSIVE Utf8ValidFrom(_, _)
Utf8ValidFrom(bytes, i) ==
    IF i > Len(bytes) THEN TRUE
    ELSE LET n == Utf8CharLen(bytes, i)
         IN  n > 0 /\ Utf8ValidFrom(bytes, i + n)

\* std::str::from_utf8(bytes).unwrap_or(""), a str kept as its bytes.
from_utf8_unwrap_or_empty(bytes) ==
    IF Utf8ValidFrom(bytes, 1) THEN bytes ELSE <<>>

\* char::to_uppercase of the character of n bytes at i, in UTF-8, for the
\* characters up to U+00FF: ASCII letters, U+00B5 to U+039C, U+00DF to "SS",
\* U+00E0..U+00FE but U+00F7 to the character 32 below, U+00FF to U+0178.
\* The characters above U+00FF have no arm: their mapping is not modelled.
UppercaseChar(bytes, i, n) ==
    CASE n = 1 -> <<to_ascii_uppercase(bytes[i])>>
      [] n = 2 /\ bytes[i] = 194 ->
           IF bytes[i + 1] = 181 THEN <<206, 156>> ELSE <<194, bytes[i + 1]>>
      [] n = 2 /\ bytes[i] = 195 ->
           LET c == bytes[i + 1]
           IN  IF c = 159 THEN <<83, 83>>
               ELSE IF c = 191 THEN <<197, 184>>
               ELSE IF c >= 160 /\ c <= 190 /\ c # 183 THEN <<195, c - 32>>
               ELSE <<195, c>>

\* str::to_uppercase of a str, character by character.
RECURSIVE to_uppercase(_, _)
to_uppercase(bytes, i) ==
    IF i > Len(bytes) THEN <<>>
    ELSE LET n == Utf8CharLen(bytes, i)
         IN  UppercaseChar(bytes, i, n) \o to_uppercase(bytes, i + n)

\* &bytes[from..to]
Slice(bytes, from, to) == [t \in 1..(to - from) |-> bytes[from + t]]

\* The entry `results.push(format!(..))` adds for the unit at start: unit_str
\* and subseq are the text of the slices, or "" for a slice that is not
\* UTF-8 (one that cuts a character of several bytes).
RepeatFound(bytes, loc) ==
    LET end == loc.start + loc.copies * loc.unit_len
        unit == Slice(bytes, loc.start, loc.start + loc.unit_len)
    IN  [start |-> loc.start, end |-> end,
         unit |-> to_uppercase(from_utf8_unwrap_or_empty(unit), 1),
         copies |-> loc.copies,
         sequence |-> from_utf8_unwrap_or_empty(Slice(bytes, loc.start, end))]

\* Bytes of the sequences searched for repeats: A, a, C and the bytes of the
\* two-byte characters U+00E9 and U+00DF (195 169, 195 159).
TandemBytes == {65, 97, 67, 195, 169, 159}

InitTandem ==
    /\ pc = "ready"
    /\ seq_a \in {s \in SeqsUpTo(TandemBytes, MaxLen) : Utf8ValidFrom(s, 1)}
    /\ seq_b = <<>>
    /\ max_d = 0
    /\ handle = NoHandle
    /\ kmer_k = 0
    /\ window_size = 0
    /\ step_size = 0
    /\ num_hashes = 0
    /\ bins = 0
    /\ result = NoResult

\* The call is made with its three numbers; the length guard returns "[]".
EnterTandem ==
    /\ pc = "ready"
    /\ \E min_unit \in 0..MaxK, max_unit \in 0..MaxK, min_copies \in 0..MaxK :
         /\ result' = [min_unit |-> min_unit, max_unit |-> max_unit,
                       min_copies |-> min_copies, start |-> 0, unit_len |-> min_unit,
                       copies |-> 0, pos |-> 0, results |-> <<>>]
         /\ pc' = IF Len(seq_a) < min_unit * min_copies THEN "done" ELSE "for"
    /\ UNCHANGED <<seq_a, seq_b, max_d, handle, kmer_k, window_size, step_size,
                 num_hashes, bins>>

\* The tests of the two `for` ranges: the next unit length at this start,
\* the next start, or the end of both loops and the return.
ForStep ==
    /\ pc = "for"
    /\ LET n == Len(seq_a)
       IN  IF result.start >= n
           THEN pc' = "done" /\ result' = result
           ELSE IF InUnitRange(result, n)
           THEN /\ result' = [result EXCEPT !.copies = 1,
                                            !.pos = result.start + result.unit_len]
                /\ pc' = "while"
           ELSE /\ result' = [result EXCEPT !.start = @ + 1,
                                            !.unit_len = result.min_unit]
                /\ pc' = "for"
    /\ UNCHANGED <<seq_a, seq_b, max_d, handle, kmer_k, window_size, step_size,
                 num_hashes, bins>>

\* The test of the `while` loop; when the loop is left, the repeat is pushed
\* if it has copies enough and the next unit length is taken.
WhileTest ==
    /\ pc = "while"
    /\ IF WhileCondition(seq_a, result)
       THEN pc' = "body" /\ result' = result
       ELSE /\ result' = [result EXCEPT
                            !.results = IF result.copies >= result.min_copies
                                        THEN Append(@, RepeatFound(seq_a, result))
                                        ELSE @,
                            !.unit_len = @ + 1]
            /\ pc' = "for"
    /\ UNCHANGED <<seq_a, seq_b, max_d, handle, kmer_k, window_size, step_size,
                 num_hashes, bins>>

\* `copies += 1; pos += unit_len;`
WhileBody ==
    /\ pc = "body"
    /\ result' = [result EXCEPT !.copies = Min(@ + 1, CopiesCap),
                                !.pos = @ + result.unit_len]
    /\ pc' = "while"
    /\ UNCHANGED <<seq_a, seq_b, max_d, handle, kmer_k, window_size, step_size,
                 num_hashes, bins>>

\* `copies += 1` on usize::MAX in a build with overflow checks.
OverflowPanic ==
    /\ pc = "body"
    /\ result.copies = CopiesCap
    /\ pc' = "panicked"
    /\ UNCHANGED <<seq_a, seq_b, max_d, handle, kmer_k, window_size, step_size,
                 num_hashes, bins, result>>

NextTandem == EnterTandem \/ ForStep \/ WhileTest \/ WhileBody \/ OverflowPanic

SpecTandem == InitTandem /\ [][NextTandem]_vars

\* A call that has started keeps running: nothing suspends or cancels it.
SpecTandemFair == SpecTandem /\ WF_vars(NextTandem)

\* C29: detect_tandem_repeats(seq, min_unit, max_unit, min_copies) terminates
\* for every input, including min_unit = 0 on a non-empty sequence: the call
\* ends, by a return or, at the least, by the panic of a build with overflow
\* checks.
C29_TandemRepeatsTerminates == <>(pc \in {"done", "panicked"})

\* A call with min_unit of one base or more returns.
TandemRepeatsTerminatesForUnitsOfOneBase ==
    [](pc = "for" /\ result.min_unit > 0 => <>(pc = "done"))

\* Every repeat listed has the copies asked for and lies inside the
\* sequence; in a sequence of ASCII bytes it is made of its copies of its
\* unit, in the case of the sequence or not.
RepeatsAreCopiesOfTheUnit ==
    pc = "done" =>
        \A r \in 1..Len(result.results) :
            LET rep == result.results[r]
            IN  /\ rep.copies >= result.min_copies
                /\ rep.end <= Len(seq_a)
                /\ (\A t \in 1..Len(seq_a) : seq_a[t] <= 127) =>
                     /\ rep.end = rep.start + rep.copies * Len(rep.unit)
                     /\ \A t \in 1..(rep.end - rep.start) :
                          to_ascii_uppercase(seq_a[rep.start + t])
                            = rep.unit[((t - 1) % Len(rep.unit)) + 1]

\* A slice that cuts a character in two is listed with the text "" for its
\* unit and its sequence, and the unit of a whole U+00DF is "SS".
CutCharacterListedEmpty ==
    /\ pc = "done"
    /\ seq_a = <<195, 159>>
    /\ \E r \in 1..Len(result.results) :
         /\ result.results[r].start = 0 /\ result.results[r].end = 1
         /\ result.results[r].unit = <<>> /\ result.results[r].sequence = <<>>
    /\ \E r \in 1..Len(result.results) :
         /\ result.results[r].start = 0 /\ result.results[r].end = 2
         /\ result.results[r].unit = <<83, 83>>
         /\ result.results[r].sequence = <<195, 159>>

\* The loop over the copies of a unit of no bases is running on "A".
EmptyUnitLoopRuns ==
    /\ pc = "body"
    /\ seq_a = <<65>>
    /\ result.unit_len = 0
    /\ result.copies = CopiesCap

\* A repeat of two copies of one base in two letter cases has been found.
TandemRepeatFound ==
    /\ pc = "done"
    /\ seq_a = <<65, 97, 67>>
    /\ \E r \in 1..Len(result.results) :
         /\ result.results[r].copies = 2
         /\ result.results[r].unit = <<65>>
         /\ result.results[r].sequence = <<65, 97>>

---------------------------------------------------------------------------
(* Index safety of the search and the traceback, checked under SpecSteps   *)
(* on the iteration each state is about to run.                            *)

\* The index of diagonal k in the furthest-point array is inside
\* [0, 2 * max_d].
DiagonalInside(k, maxd) == k + maxd >= 0 /\ k + maxd <= 2 * maxd

\* C30: every read of the furthest-point array at diagonal k - 1 or k + 1 in
\* the search falls inside [0, 2 * max_d]; in the traceback the predecessor
\* value used is >= 0, snake_start_x <= x, 0 <= snake_start_y <= y, (x, y)
\* stays within [0, len(A)] x [0, len(B)], and each step emits exactly one
\* Delete or Insert; no index is out of bounds.
C30_IndexSafety ==
    /\ (pc = "forward" /\ result.d > 0) =>
          /\ result.k > -result.d => DiagonalInside(result.k - 1, result.maxd)
          /\ result.k < result.d => DiagonalInside(result.k + 1, result.maxd)
          /\ DiagonalInside(result.k, result.maxd)
          /\ Len(result.v) = 2 * result.maxd + 1
    /\ pc \in {"traceback", "build"} =>
          /\ result.x >= 0 /\ result.x <= Len(seq_a)
          /\ result.y >= 0 /\ result.y <= Len(seq_b)
    /\ (pc = "traceback" /\ result.d > 0) =>
          LET it == TracebackIteration(result)
          IN  /\ result.d < Len(result.history)
              /\ (IF it.is_deletion THEN it.from_del ELSE it.from_ins) >= 0
              /\ it.snake_start_x <= result.x
              /\ it.snake_start_y <= result.y
              /\ it.snake_start_y >= 0
              /\ it.emitted = 1
    /\ pc = "done" => ~result.panicked

\* C30 witness: the traceback is about to run an iteration on an interior
\* diagonal, where it chooses between the two predecessors, after a snake.
C30_Witness ==
    /\ pc = "traceback"
    /\ result.d > 1
    /\ result.x - result.y > -result.d
    /\ result.x - result.y < result.d
    /\ TracebackIteration(result).snake_start_x < result.x

\* The search is about to read both neighbours of an interior diagonal.
InteriorDiagonalRead ==
    pc = "forward" /\ result.d = MaxBudget /\ result.k = 0

=============================================================================
